---- MODULE Spec2Model ----
(***************************************************************************)
(* A model of the tool registry, the schema inferencer, the sandboxed      *)
(* Python executor and the workspace file gateway of agent-composer        *)
(* (backend/src/tools/registry.py, backend/src/tools/builtin.py,           *)
(* backend/src/code_tools.py and backend/src/main.py).                     *)
(*                                                                         *)
(* Each component has its own specification over the shared variables:     *)
(*   SpecExec      one thread calling run_python_code (nested calls too)   *)
(*   SpecExecConc  several threads calling run_python_code                 *)
(***************************************************************************)
EXTENDS Integers, Sequences, FiniteSets, TLC

(***************************************************************************)
(* Bounds of the model.                                                    *)
(***************************************************************************)
\* run_python_code calls made in one behaviour (each creates two StringIO)
MaxRuns == 2
\* statements one executed code string runs before it ends
MaxStmts == 2
\* nesting depth of run_python_code calls in one thread
MaxDepth == 2
\* threads of the concurrent specification
NumThreads == 2
\* statements one executed code string runs in the concurrent specification
ConcStmts == 1
\* register calls made in one behaviour
MaxRegs == 3
\* parameters of a callable handed to the schema inferencer
MaxParams == 2
\* components of a path, file name or glob pattern argument
MaxPathLen == 2
\* awaits a wrapped coroutine goes through before it ends
MaxAwaits == 2

(***************************************************************************)
(* Sandboxed executor: state.                                              *)
(*                                                                         *)
(* A stream is named by a number: 0 is the stream object that was attached *)
(* before any call (the process's own stdout or stderr), n > 0 is the      *)
(* StringIO that call n created.                                           *)
(***************************************************************************)
VARIABLES
    sys_stdout,     \* sys.stdout: the stream currently attached
    sys_stderr,     \* sys.stderr
    bufOut,         \* redirected_output of each call: the text written, by writer
    bufErr,         \* redirected_error of each call
    stack,          \* per thread: the active run_python_code frames, innermost last
    result,         \* what the caller of the call that ended last got
    nextId,         \* the next call's number
    registrySet     \* code_tools._registry is not None

exVars == <<sys_stdout, sys_stderr, bufOut, bufErr, stack, result, nextId, registrySet>>

(***************************************************************************)
(* Tool registry and schema inferencer: state.                             *)
(***************************************************************************)
VARIABLES
    tools,          \* ToolRegistry._tools: an insertion-ordered dict, as a sequence
    regLog,         \* every register call made so far, in order (history)
    doc,            \* what the last generate_instructions call returned, and when
    sig,            \* the signature of the callable handed to _extract_parameters
    schema          \* what _extract_parameters returned for it

regVars == <<tools, regLog, doc>>
schVars == <<sig, schema>>

(***************************************************************************)
(* Filesystem: state.                                                      *)
(***************************************************************************)
VARIABLES
    files,          \* the regular files: absolute path -> content
    dirs,           \* the directories: absolute paths
    ret             \* the last file operation: its argument, outcome and the paths
                    \* it read, created or wrote

fsVars == <<files, dirs, ret>>

(***************************************************************************)
(* Execution namespaces: state.                                            *)
(***************************************************************************)
VARIABLES
    ns,             \* the dict a caller got from get_namespace, and what the
                    \* caller did with it since
    run,            \* the run_python_code call in progress: its run_globals
    builtinsDict    \* the names added to the interpreter's builtins, which
                    \* every run_globals refers to under "__builtins__"

nsVars == <<ns, run, builtinsDict>>

(***************************************************************************)
(* Async/sync bridge: state.                                               *)
(***************************************************************************)
VARIABLES
    bridge,         \* the sync_wrapper call in progress in the calling thread
    worker,         \* the single thread of the call's ThreadPoolExecutor
    future,         \* the Future of run_in_thread
    coro,           \* the coroutine made by async_func(*args, **kwargs)
    bret            \* how the last sync_wrapper call ended

brVars == <<bridge, worker, future, coro, bret>>

(***************************************************************************)
(* Toolkit loading: state.                                                 *)
(***************************************************************************)
VARIABLES
    loaded          \* the last load_agno_toolkit call: its arguments, what it
                    \* gave, and the registry's entries when it was made

tkVars == <<loaded>>

(***************************************************************************)
(* Agent configuration (config_routes.py, agents.py): state.               *)
(***************************************************************************)
VARIABLES
    agentsFile,     \* config/agents.json: the list of custom agent entries
    resp            \* the last HTTP response of the /config routes

cfVars == <<agentsFile, resp>>

(***************************************************************************)
(* Database-backed agents (api/agents.py, agui/adapter.py): state.         *)
(***************************************************************************)
VARIABLES
    rows,           \* the agents table: id -> the row's current content
    agents_cache,   \* DynamicAgentRegistry._agents_cache: id -> Agent instance
    got             \* the last registry.get_agent call and what it returned

dbVars == <<rows, agents_cache, got>>

vars == <<exVars, regVars, schVars, fsVars, nsVars, brVars, tkVars, cfVars, dbVars>>

\* what the steps of one component leave alone
exOthers == <<regVars, schVars, fsVars, nsVars, brVars, tkVars, cfVars, dbVars>>
regOthers == <<exVars, schVars, fsVars, nsVars, brVars, tkVars, cfVars, dbVars>>
schOthers == <<exVars, regVars, fsVars, nsVars, brVars, tkVars, cfVars, dbVars>>
fsOthers == <<exVars, regVars, schVars, nsVars, brVars, tkVars, cfVars, dbVars>>
nsOthers == <<exVars, schVars, fsVars, brVars, tkVars, cfVars, dbVars>>
brOthers == <<exVars, regVars, schVars, fsVars, nsVars, tkVars, cfVars, dbVars>>
tkOthers == <<exVars, schVars, fsVars, nsVars, brVars, cfVars, dbVars>>
cfOthers == <<exVars, regVars, schVars, fsVars, nsVars, brVars, tkVars, dbVars>>
dbOthers == <<exVars, regVars, schVars, fsVars, nsVars, brVars, tkVars, cfVars>>

Threads == 1..NumThreads
MainThread == 1
CallIds == 1..MaxRuns
OrigStream == 0
Unset == -1

\* exceptions the executed code, a registered tool or a bridged async tool raises
ExceptionKinds == {"SyntaxError", "ValueError", "ToolError", "BridgeError"}
\* BaseException subclasses that are not Exception subclasses
BaseOnlyKinds == {"SystemExit"}
Raisable == ExceptionKinds \cup BaseOnlyKinds

NoRet == [kind |-> "none"]
NoResult == [status |-> "running"]

\* `except Exception as e` (code_tools.py:122, main.py:159)
Catches(e) == e \in ExceptionKinds

\* lines 117-123: the value the try statement returns
FormatResult(exc, output, error) ==
    IF exc # "none" THEN [kind |-> "error", msg |-> exc]
    ELSE IF error # <<>> THEN [kind |-> "output_errors", out |-> output, err |-> error]
    ELSE IF output # <<>> THEN [kind |-> "stdout", out |-> output]
    ELSE [kind |-> "sentinel"]

\* a restore that only the normal path reaches (no finally clause)
RestoredStdoutNoFinally(f) == IF f.exc # "none" THEN sys_stdout ELSE f.old_out

\* the finally clause (lines 124-126) re-attaches the saved streams
RestoredStdout(f) == f.old_out
RestoredStderr(f) == f.old_err

NewFrame(id, n, so, se) ==
    [id |-> id, pc |-> "save_out", old_out |-> Unset, old_err |-> Unset,
     exc |-> "none", budget |-> n, left |-> n, ret |-> NoRet,
     startOut |-> so, startErr |-> se, nOut |-> 0, nErr |-> 0]

Top(t) == stack[t][Len(stack[t])]
SetTop(t, f) == [stack EXCEPT ![t] = [@ EXCEPT ![Len(@)] = f]]
Active(t) == stack[t] # <<>>
At(t, pc) == Active(t) /\ Top(t).pc = pc

\* stream s is the StringIO of a call that has not ended: what is written to any
\* other stream (the process's own, or the buffer a call that ended left attached)
\* reaches no call's result and is not recorded
Live(s) == \E t \in Threads : \E i \in 1..Len(stack[t]) : stack[t][i].id = s

InitExec ==
    /\ sys_stdout = OrigStream
    /\ sys_stderr = OrigStream
    /\ bufOut = [i \in CallIds |-> <<>>]
    /\ bufErr = [i \in CallIds |-> <<>>]
    /\ stack = [t \in Threads |-> <<>>]
    /\ result = NoResult
    /\ nextId = 1
    /\ registrySet = FALSE

\* set_tool_registry(registry)
SetToolRegistry ==
    /\ ~registrySet
    /\ registrySet' = TRUE
    /\ UNCHANGED <<sys_stdout, sys_stderr, bufOut, bufErr, stack, result, nextId, exOthers>>

\* the agent runtime calls run_python_code(code) in thread t; the code runs at
\* most n statements
Call(t, n) ==
    /\ ~Active(t)
    /\ nextId <= MaxRuns
    /\ nextId' = nextId + 1
    /\ IF registrySet
       THEN /\ stack' = [stack EXCEPT ![t] = <<NewFrame(nextId, n, sys_stdout, sys_stderr)>>]
            /\ UNCHANGED result
       ELSE \* lines 98-99: returns before any redirection
            /\ result' = [id |-> nextId, status |-> "returned",
                          ret |-> [kind |-> "no_registry"],
                          exc |-> "none", nOut |-> 0, nErr |-> 0,
                          startOut |-> sys_stdout, startErr |-> sys_stderr,
                          endOut |-> sys_stdout, endErr |-> sys_stderr]
            /\ UNCHANGED stack
    /\ UNCHANGED <<sys_stdout, sys_stderr, bufOut, bufErr, registrySet, exOthers>>

\* old_stdout = sys.stdout
SaveStdout(t) ==
    /\ At(t, "save_out")
    /\ stack' = SetTop(t, [Top(t) EXCEPT !.old_out = sys_stdout, !.pc = "save_err"])
    /\ UNCHANGED <<sys_stdout, sys_stderr, bufOut, bufErr, result, nextId, registrySet, exOthers>>

\* old_stderr = sys.stderr
SaveStderr(t) ==
    /\ At(t, "save_err")
    /\ stack' = SetTop(t, [Top(t) EXCEPT !.old_err = sys_stderr, !.pc = "set_out"])
    /\ UNCHANGED <<sys_stdout, sys_stderr, bufOut, bufErr, result, nextId, registrySet, exOthers>>

\* redirected_output = StringIO(); redirected_error = StringIO(); sys.stdout = redirected_output
SetStdout(t) ==
    /\ At(t, "set_out")
    /\ sys_stdout' = Top(t).id
    /\ stack' = SetTop(t, [Top(t) EXCEPT !.pc = "set_err"])
    /\ UNCHANGED <<sys_stderr, bufOut, bufErr, result, nextId, registrySet, exOthers>>

\* sys.stderr = redirected_error
SetStderr(t) ==
    /\ At(t, "set_err")
    /\ sys_stderr' = Top(t).id
    /\ stack' = SetTop(t, [Top(t) EXCEPT !.pc = "exec"])
    /\ UNCHANGED <<sys_stdout, bufOut, bufErr, result, nextId, registrySet, exOthers>>

\* the executed code writes to sys.stdout (print): the text goes to whatever
\* stream is attached to the process at that moment
ExecPrint(t) ==
    /\ At(t, "exec")
    /\ Top(t).left > 0
    /\ bufOut' = IF Live(sys_stdout) THEN [bufOut EXCEPT ![sys_stdout] = Append(@, Top(t).id)]
                 ELSE bufOut
    /\ stack' = SetTop(t, [Top(t) EXCEPT !.left = @ - 1, !.nOut = @ + 1])
    /\ UNCHANGED <<sys_stdout, sys_stderr, bufErr, result, nextId, registrySet, exOthers>>

\* the executed code writes to sys.stderr
ExecEprint(t) ==
    /\ At(t, "exec")
    /\ Top(t).left > 0
    /\ bufErr' = IF Live(sys_stderr) THEN [bufErr EXCEPT ![sys_stderr] = Append(@, Top(t).id)]
                 ELSE bufErr
    /\ stack' = SetTop(t, [Top(t) EXCEPT !.left = @ - 1, !.nErr = @ + 1])
    /\ UNCHANGED <<sys_stdout, sys_stderr, bufOut, result, nextId, registrySet, exOthers>>

\* compile() fails, the executed code raises, or a tool it calls raises
ExecRaise(t, e) ==
    /\ At(t, "exec")
    /\ e = "SyntaxError" => Top(t).left = Top(t).budget
    /\ stack' = SetTop(t, [Top(t) EXCEPT !.exc = e,
                               !.pc = IF Catches(e) THEN "format" ELSE "restore_out"])
    /\ UNCHANGED <<sys_stdout, sys_stderr, bufOut, bufErr, result, nextId, registrySet, exOthers>>

\* the executed code calls a tool that calls run_python_code again
ExecNested(t) ==
    /\ At(t, "exec")
    /\ Top(t).left > 0
    /\ Len(stack[t]) < MaxDepth
    /\ nextId <= MaxRuns
    /\ nextId' = nextId + 1
    /\ stack' = [stack EXCEPT ![t] =
            Append([@ EXCEPT ![Len(@)] = [@ EXCEPT !.left = @ - 1]],
                   NewFrame(nextId, Top(t).budget, sys_stdout, sys_stderr))]
    /\ UNCHANGED <<sys_stdout, sys_stderr, bufOut, bufErr, result, registrySet, exOthers>>

\* the executed code runs to its end
ExecEnd(t) ==
    /\ At(t, "exec")
    /\ stack' = SetTop(t, [Top(t) EXCEPT !.pc = "format"])
    /\ UNCHANGED <<sys_stdout, sys_stderr, bufOut, bufErr, result, nextId, registrySet, exOthers>>

\* lines 117-123: getvalue() of both buffers and the return expression
Format(t) ==
    /\ At(t, "format")
    /\ stack' = SetTop(t, [Top(t) EXCEPT
            !.ret = FormatResult(Top(t).exc, bufOut[Top(t).id], bufErr[Top(t).id]),
            !.pc = "restore_out"])
    /\ UNCHANGED <<sys_stdout, sys_stderr, bufOut, bufErr, result, nextId, registrySet, exOthers>>

\* finally: sys.stdout = old_stdout
RestoreStdout(t) ==
    /\ At(t, "restore_out")
    /\ sys_stdout' = RestoredStdout(Top(t))
    /\ stack' = SetTop(t, [Top(t) EXCEPT !.pc = "restore_err"])
    /\ UNCHANGED <<sys_stderr, bufOut, bufErr, result, nextId, registrySet, exOthers>>

\* finally: sys.stderr = old_stderr
RestoreStderr(t) ==
    /\ At(t, "restore_err")
    /\ sys_stderr' = RestoredStderr(Top(t))
    /\ stack' = SetTop(t, [Top(t) EXCEPT !.pc = "return"])
    /\ UNCHANGED <<sys_stdout, bufOut, bufErr, result, nextId, registrySet, exOthers>>

\* the call ends: its value goes to the caller, or the exception that the
\* except clause did not catch goes on into the caller
Return(t) ==
    /\ At(t, "return")
    /\ LET f == Top(t)
           escaped == f.ret = NoRet
           rest == SubSeq(stack[t], 1, Len(stack[t]) - 1)
       IN /\ result' = [id |-> f.id,
                         status |-> IF escaped THEN "raised" ELSE "returned",
                         ret |-> f.ret, exc |-> f.exc, nOut |-> f.nOut, nErr |-> f.nErr,
                         startOut |-> f.startOut, startErr |-> f.startErr,
                         endOut |-> sys_stdout, endErr |-> sys_stderr]
          /\ bufOut' = [bufOut EXCEPT ![f.id] = <<>>]
          /\ bufErr' = [bufErr EXCEPT ![f.id] = <<>>]
          /\ stack' = [stack EXCEPT ![t] =
                   IF rest # <<>> /\ escaped
                   THEN [rest EXCEPT ![Len(rest)] =
                            [@ EXCEPT !.exc = f.exc, !.pc = "restore_out"]]
                   ELSE rest]
    /\ UNCHANGED <<sys_stdout, sys_stderr, nextId, registrySet, exOthers>>


(***************************************************************************)
(* Schema inferencer (ToolRegistry._extract_parameters).                   *)
(*                                                                         *)
(* A signature is the sequence of inspect.Parameter objects in declaration *)
(* order: [name, ann, default].  An annotation is inspect.Parameter.empty, *)
(* a class, an alias object that has __origin__ and __args__ (Optional[T], *)
(* list[T], dict[K, V]) or a types.UnionType (T | None), which has         *)
(* __args__ but no __origin__.                                             *)
(***************************************************************************)
EmptyDefault == "<empty>"
AnnEmpty == [form |-> "empty"]
Class(c) == [form |-> "class", name |-> c]
Alias(o, a) == [form |-> "alias", origin |-> o, args |-> a]
UnionType(a) == [form |-> "uniontype", args |-> a]

\* type_map (registry.py:60-67)
TypeMapKeys == {"str", "int", "float", "bool", "list", "dict"}
type_map(c) ==
    CASE c = "str" -> "string"
      [] c = "int" -> "integer"
      [] c = "float" -> "number"
      [] c = "bool" -> "boolean"
      [] c = "list" -> "array"
      [] c = "dict" -> "object"

\* type_map.get(py_type, "string")
TypeMapGet(py_type) ==
    IF py_type.form = "class" /\ py_type.name \in TypeMapKeys
    THEN type_map(py_type.name) ELSE "string"

\* lines 76-86: the "type" entry of a parameter
ParamType(ann) ==
    IF ann # AnnEmpty
    THEN LET py_type ==
                IF ann.form = "alias"
                THEN IF ann.origin = "NoneType" THEN Class("str")
                     ELSE IF ann.args # <<>> THEN ann.args[1] ELSE Class("str")
                ELSE ann
         IN TypeMapGet(py_type)
    ELSE "string"

\* a parameter is required whatever its default
IsRequiredAlways(p) == TRUE

\* line 89: param.default == inspect.Parameter.empty
IsRequired(p) == p.default = EmptyDefault

\* lines 73-92: param_info
ParamInfo(p) ==
    IF IsRequired(p) THEN [type |-> ParamType(p.ann)]
    ELSE [type |-> ParamType(p.ann), default |-> p.default]

\* lines 70-71: if param_name in ("self", "cls"): continue
Skipped(p) == p.name \in {"self", "cls"}

NotSkipped(p) == ~Skipped(p)

\* _extract_parameters(func), with sg = inspect.signature(func).parameters;
\* properties is an insertion-ordered dict, kept as a sequence of entries
extract_parameters(sg) ==
    LET seen == SelectSeq(sg, NotSkipped)
    IN [type |-> "object",
        properties |-> [i \in 1..Len(seen) |-> [name |-> seen[i].name, info |-> ParamInfo(seen[i])]],
        required |-> LET req == SelectSeq(seen, IsRequired)
                     IN [i \in 1..Len(req) |-> req[i].name]]

\* the callables drawn for the inferencer: every signature of at most MaxParams
\* parameters with distinct names
ParamNames == {"self", "a", "b"}
Annotations == {AnnEmpty, Class("int"),
                Alias("Union", <<Class("str"), Class("NoneType")>>)}
Defaults == {EmptyDefault, "None", "5"}
Params == [name : ParamNames, ann : Annotations, default : Defaults]
Signatures ==
    {sg \in UNION {[1..n -> Params] : n \in 0..MaxParams} :
        \A i, j \in 1..Len(sg) : i # j => sg[i].name # sg[j].name}

\* the annotations drawn for the type mapping: none, a class, Optional[T] and
\* Union[...] (typing aliases, with __origin__), T | None (types.UnionType,
\* without __origin__), list[T], and a wrapper without arguments
TypeClasses == TypeMapKeys \cup {"NoneType", "Path"}
WideAnnotations ==
    {AnnEmpty}
    \cup {Class(c) : c \in TypeClasses}
    \cup {Alias("Union", <<Class(c1), Class(c2)>>) : c1, c2 \in TypeClasses}
    \cup {UnionType(<<Class(c1), Class(c2)>>) : c1, c2 \in TypeClasses}
    \cup {Alias("list", <<Class(c)>>) : c \in TypeClasses}
    \cup {Alias("dict", <<Class(c1), Class(c2)>>) : c1, c2 \in {"str", "int"}}
    \cup {Alias("Optional", <<>>)}
TypedSignatures ==
    {<<[name |-> "a", ann |-> an, default |-> d]>> :
        an \in WideAnnotations, d \in {EmptyDefault, "None"}}

NoSchema == [type |-> "none"]

InitSchema ==
    /\ sig = <<>>
    /\ schema = NoSchema

InitSchemaInputs ==
    /\ sig \in Signatures
    /\ schema = NoSchema

InitTypedInputs ==
    /\ sig \in TypedSignatures
    /\ schema = NoSchema

\* registry._extract_parameters(func)
InferSchema ==
    /\ schema = NoSchema
    /\ schema' = extract_parameters(sig)
    /\ UNCHANGED <<sig, schOthers>>

(***************************************************************************)
(* Tool registry (ToolRegistry).                                           *)
(***************************************************************************)
\* the callables registered: two of BUILTIN_TOOLS, by their signatures
\* (builtin.py:19 and builtin.py:106)
RegFuncs == {"web_search", "http_get"}
Signature(f) ==
    IF f = "web_search"
    THEN <<[name |-> "query", ann |-> Class("str"), default |-> EmptyDefault],
           [name |-> "num_results", ann |-> Class("int"), default |-> "5"]>>
    ELSE <<[name |-> "url", ann |-> Class("str"), default |-> EmptyDefault],
           [name |-> "headers",
            ann |-> UnionType(<<Alias("dict", <<Class("str"), Class("str")>>), Class("NoneType")>>),
            default |-> "None"]>>

ToolNames == {"x", "y"}
Descriptions == {"d1", "d2"}
\* register's parameters argument: None, or a schema given by the caller
NoneParameters == [type |-> "None"]
ExplicitSchema ==
    [type |-> "object",
     properties |-> <<[name |-> "q", info |-> [type |-> "string"]],
                      [name |-> "n", info |-> [type |-> "integer", default |-> "5"]]>>,
     required |-> <<"n">>]
ParameterArgs == {NoneParameters, ExplicitSchema}

\* ToolDefinition(name, func, description, parameters)
ToolDefinition(name, func, description, parameters) ==
    [name |-> name, func |-> func, description |-> description, parameters |-> parameters]

KeyIndex(d, k) == CHOOSE i \in 1..Len(d) : d[i].name = k
HasKey(d, k) == \E i \in 1..Len(d) : d[i].name = k

\* a store that keeps the entry already under the name
DictSetKeepFirst(d, k, v) == IF HasKey(d, k) THEN d ELSE Append(d, v)

\* a store that moves a name registered again to the end
DictSetMoveToEnd(d, k, v) == Append(SelectSeq(d, LAMBDA e : e.name # k), v)

\* self._tools[name] = ... on an insertion-ordered dict: a new key goes last, an
\* existing key keeps its place and gets the new value
DictSet(d, k, v) ==
    IF HasKey(d, k) THEN [d EXCEPT ![KeyIndex(d, k)] = v] ELSE Append(d, v)

NoDoc == [called |-> FALSE]

InitRegistry ==
    /\ tools = <<>>
    /\ regLog = <<>>
    /\ doc = NoDoc

\* registry.register(name, func, description, parameters)
Register(name, func, description, parameters) ==
    /\ Len(regLog) < MaxRegs
    /\ LET params == IF parameters = NoneParameters
                     THEN extract_parameters(Signature(func))
                     ELSE parameters
       IN tools' = DictSet(tools, name, ToolDefinition(name, func, description, params))
    /\ regLog' = Append(regLog, [name |-> name, func |-> func,
                                 description |-> description, parameters |-> parameters])
    /\ UNCHANGED <<doc, regOthers>>

RECURSIVE Flatten(_)
Flatten(ss) == IF ss = <<>> THEN <<>> ELSE Head(ss) \o Flatten(Tail(ss))

\* a parameter list that marks by the recorded default alone
ParamLineByDefault(e, required) ==
    IF "default" \in DOMAIN e.info /\ e.info.default # "None"
    THEN [k |-> "param", name |-> e.name, type |-> e.info.type, mark |-> "default",
          value |-> e.info.default]
    ELSE [k |-> "param", name |-> e.name, type |-> e.info.type, mark |-> "optional"]

\* lines 133-143: one line of the parameter list
ParamLine(e, required) ==
    LET default == IF "default" \in DOMAIN e.info THEN e.info.default ELSE "None"
        is_required == \E i \in 1..Len(required) : required[i] = e.name
    IN IF is_required
       THEN [k |-> "param", name |-> e.name, type |-> e.info.type, mark |-> "required"]
       ELSE IF default # "None"
       THEN [k |-> "param", name |-> e.name, type |-> e.info.type, mark |-> "default",
             value |-> default]
       ELSE [k |-> "param", name |-> e.name, type |-> e.info.type, mark |-> "optional"]

\* lines 123-144: the lines of one tool's section
Section(tool) ==
    LET props == tool.parameters.properties
        required == tool.parameters.required
    IN <<[k |-> "tool", name |-> tool.name],
         [k |-> "description", text |-> tool.description],
         [k |-> "blank"]>>
       \o (IF props # <<>>
           THEN <<[k |-> "parameters"]>>
                \o [i \in 1..Len(props) |-> ParamLine(props[i], required)]
                \o <<[k |-> "blank"]>>
           ELSE <<>>)

\* lines 115-121
Header ==
    <<[k |-> "text", text |-> "## Available Python Tools"],
      [k |-> "blank"],
      [k |-> "text", text |-> "These functions are available in the Python interpreter."],
      [k |-> "text", text |-> "Call them directly in your code (no imports needed):"],
      [k |-> "blank"]>>

\* generate_instructions(): the lines that "\n".join puts together; no line at
\* all is the empty string
generate_instructions(d) ==
    IF d = <<>> THEN <<>>
    ELSE Header \o Flatten([i \in 1..Len(d) |-> Section(d[i])])

\* registry.generate_instructions()
GenerateInstructions ==
    /\ doc' = [called |-> TRUE, lines |-> generate_instructions(tools), log |-> regLog]
    /\ UNCHANGED <<tools, regLog, regOthers>>

(***************************************************************************)
(* Execution namespaces: get_namespace and the run_globals of a run.       *)
(***************************************************************************)
\* an async callable registered as a tool, next to the synchronous ones
AsyncFuncs == {"fetch_async"}
AllFuncs == RegFuncs \cup AsyncFuncs
\* is_async_callable(func): asyncio.iscoroutinefunction(func)
is_async_callable(f) == f \in AsyncFuncs

\* the entries of a name -> callable dict made from the registry's entries
NamespaceItems(d) == [i \in 1..Len(d) |-> [name |-> d[i].name, func |-> d[i].func]]

\* a get_namespace that hands out the registry's own dict
get_namespace_shared(d) == [obj |-> "_tools", items |-> NamespaceItems(d)]

\* get_namespace(): {name: tool.func for name, tool in self._tools.items()},
\* a dict object of its own
get_namespace(d) == [obj |-> "new", items |-> NamespaceItems(d)]

NoSnapshot == [taken |-> FALSE]
NoRun == [active |-> FALSE]

InitNamespace ==
    /\ ns = NoSnapshot
    /\ run = NoRun
    /\ builtinsDict = {}

\* what the dict held by the caller shows now
SnapshotItems ==
    IF ns.dict.obj = "_tools" THEN NamespaceItems(tools) ELSE ns.dict.items

\* a caller takes registry.get_namespace()
GetNamespace ==
    /\ ns' = [taken |-> TRUE, dict |-> get_namespace(tools), at |-> Len(regLog),
              changed |-> FALSE]
    /\ UNCHANGED <<run, builtinsDict, regVars, nsOthers>>

\* the caller does snapshot[k] = f
SnapshotSet(k, f) ==
    /\ ns.taken
    /\ IF ns.dict.obj = "_tools"
       THEN /\ tools' = DictSet(tools, k, [name |-> k, func |-> f])
            /\ ns' = [ns EXCEPT !.changed = TRUE]
       ELSE /\ ns' = [ns EXCEPT !.dict.items = DictSet(@, k, [name |-> k, func |-> f]),
                                !.changed = TRUE]
            /\ UNCHANGED tools
    /\ UNCHANGED <<regLog, doc, run, builtinsDict, nsOthers>>

\* the caller does del snapshot[k]
SnapshotDel(k) ==
    /\ ns.taken
    /\ \E i \in 1..Len(SnapshotItems) : SnapshotItems[i].name = k
    /\ IF ns.dict.obj = "_tools"
       THEN /\ tools' = SelectSeq(tools, LAMBDA e : e.name # k)
            /\ ns' = [ns EXCEPT !.changed = TRUE]
       ELSE /\ ns' = [ns EXCEPT !.dict.items = SelectSeq(@, LAMBDA e : e.name # k),
                                !.changed = TRUE]
            /\ UNCHANGED tools
    /\ UNCHANGED <<regLog, doc, run, builtinsDict, nsOthers>>

\* the names a script binds: the tool names and a helper of its own
ScriptNames == ToolNames \cup {"helper"}
\* the value of a name bound by a script
UserValue == "user"

\* run_python_code, lines 102-106: run_globals = {"__builtins__": __builtins__,
\* **tool_namespace}, a new dict for every call
RunStart ==
    /\ ~run.active
    /\ run' = [active |-> TRUE, globals |-> get_namespace(tools).items, stmts |-> 0,
               at |-> Len(regLog)]
    /\ UNCHANGED <<ns, builtinsDict, regVars, nsOthers>>

\* the script executes `n = ...` (or def n) at its top level
RunDefine(n) ==
    /\ run.active
    /\ run' = [run EXCEPT !.globals = DictSet(@, n, [name |-> n, func |-> UserValue]),
                          !.stmts = 1]
    /\ UNCHANGED <<ns, builtinsDict, regVars, nsOthers>>

\* the script executes `__builtins__[n] = ...` (or `import builtins;
\* builtins.n = ...`): the builtins dict is the interpreter's, not a copy
RunDefineBuiltin(n) ==
    /\ run.active
    /\ builtinsDict' = builtinsDict \cup {n}
    /\ run' = [run EXCEPT !.stmts = 1]
    /\ UNCHANGED <<ns, regVars, nsOthers>>

\* the call returns; its run_globals is dropped
RunEnd ==
    /\ run.active
    /\ run' = NoRun
    /\ UNCHANGED <<ns, builtinsDict, regVars, nsOthers>>

\* what the name n evaluates to in the run in progress: run_globals first, then
\* the builtins
NameLookup(n) ==
    IF HasKey(run.globals, n) THEN run.globals[KeyIndex(run.globals, n)].func
    ELSE IF n \in builtinsDict THEN UserValue
    ELSE "NameError"

(***************************************************************************)
(* Async/sync bridge: make_sync_wrapper (async_bridge.py).                 *)
(***************************************************************************)
\* what the wrapped async function does: it awaits `awaits` times and then
\* returns a value ("args": the argument it was called with), raises, or
\* never completes
BridgeArgs == {"a1", "a2"}
BridgeValues == {"42", "args"}
BridgeExceptions == {"ValueError", "RuntimeError", "NotImplementedError"}
Behaviours ==
    [kind : {"return"}, val : BridgeValues, awaits : 0..MaxAwaits]
    \cup [kind : {"raise"}, exc : BridgeExceptions, awaits : 0..MaxAwaits]
    \cup [kind : {"never"}, awaits : {0}]

\* `except RuntimeError` (line 42) catches RuntimeError and its subclasses
IsRuntimeError(t) == t \in {"RuntimeError", "NotImplementedError"}

\* a wrapper that never sees the running loop
LoopRunningNever(in_loop) == FALSE

\* asyncio.get_running_loop() returns (line 32) when a loop runs in the thread
LoopRunning(in_loop) == in_loop

\* an executor that is left without waiting for its worker thread
ShutdownNoWait == FALSE

\* `with ThreadPoolExecutor(...)`: __exit__ calls shutdown(wait=True)
ShutdownWaits == TRUE

\* what a coroutine of behaviour beh called with args ends with
Outcome(beh, args) ==
    IF beh.kind = "return"
    THEN [kind |-> "return", val |-> IF beh.val = "args" THEN args ELSE beh.val]
    ELSE [kind |-> "raise", exc |-> [type |-> beh.exc, from |-> "async_func"]]

\* asyncio.run() called in a thread whose event loop is running
NestedLoopError == [type |-> "RuntimeError", from |-> "asyncio.run"]

BridgeIdle == [pc |-> "idle"]
NoCoro == [state |-> "none"]
NoFuture == [state |-> "none"]
NoBridgeRet == [kind |-> "none"]

InitBridge ==
    /\ bridge = BridgeIdle
    /\ worker = "none"
    /\ future = NoFuture
    /\ coro = NoCoro
    /\ bret = NoBridgeRet

\* sync_wrapper(*args, **kwargs) is called; in_loop: an event loop is running
\* in the calling thread
BridgeCall(in_loop, args, beh) ==
    /\ bridge.pc = "idle"
    /\ bridge' = [pc |-> "get_loop", in_loop |-> in_loop, args |-> args, beh |-> beh]
    /\ worker' = "none"
    /\ future' = NoFuture
    /\ coro' = NoCoro
    /\ bret' = NoBridgeRet
    /\ UNCHANGED brOthers

\* line 32: asyncio.get_running_loop(); RuntimeError when none runs, caught at
\* line 42
GetRunningLoop ==
    /\ bridge.pc = "get_loop"
    /\ bridge' = [bridge EXCEPT !.pc = IF LoopRunning(bridge.in_loop) THEN "submit"
                                          ELSE "run_direct"]
    /\ UNCHANGED <<worker, future, coro, bret, brOthers>>

\* lines 35-40: the executor is made and run_in_thread submitted
Submit ==
    /\ bridge.pc = "submit"
    /\ worker' = "started"
    /\ future' = [state |-> "pending"]
    /\ bridge' = [bridge EXCEPT !.pc = "result"]
    /\ UNCHANGED <<coro, bret, brOthers>>

\* line 38 in the worker: async_func(*args, **kwargs) and asyncio.run() starting
\* a new event loop (none runs in the worker thread)
WorkerStart ==
    /\ worker = "started"
    /\ worker' = "running"
    /\ coro' = [state |-> "running", thread |-> "worker", args |-> bridge.args,
                left |-> bridge.beh.awaits]
    /\ UNCHANGED <<bridge, future, bret, brOthers>>

\* the event loop drives the coroutine over one await
CoroStep ==
    /\ coro.state = "running"
    /\ coro.left > 0
    /\ coro' = [coro EXCEPT !.left = @ - 1]
    /\ UNCHANGED <<bridge, worker, future, bret, brOthers>>

\* the coroutine completes in the worker; the Future gets its result or its
\* exception
WorkerFinish ==
    /\ worker = "running"
    /\ coro.state = "running" /\ coro.left = 0
    /\ bridge.beh.kind # "never"
    /\ coro' = [coro EXCEPT !.state = "finished"]
    /\ future' = [state |-> "done", outcome |-> Outcome(bridge.beh, coro.args)]
    /\ worker' = "finishing"
    /\ UNCHANGED <<bridge, bret, brOthers>>

\* the worker thread ends
WorkerExit ==
    /\ worker = "finishing"
    /\ worker' = "exited"
    /\ UNCHANGED <<bridge, future, coro, bret, brOthers>>

\* line 41: future.result() returns the value or raises the exception
FutureResult ==
    /\ bridge.pc = "result"
    /\ future.state = "done"
    /\ bridge' = [pc |-> "exit_with", in_loop |-> bridge.in_loop, args |-> bridge.args,
                  beh |-> bridge.beh, out |-> future.outcome]
    /\ UNCHANGED <<worker, future, coro, bret, brOthers>>

\* leaving the with block (line 35): the executor is shut down; then the value
\* is returned, or the exception reaches `except RuntimeError` (line 42)
ExitWith ==
    /\ bridge.pc = "exit_with"
    /\ ShutdownWaits => worker = "exited"
    /\ IF bridge.out.kind = "raise" /\ IsRuntimeError(bridge.out.exc.type)
       THEN /\ bridge' = [pc |-> "run_direct", in_loop |-> bridge.in_loop,
                          args |-> bridge.args, beh |-> bridge.beh]
            /\ UNCHANGED bret
       ELSE /\ bret' = [kind |-> bridge.out.kind, out |-> bridge.out, via |-> "thread",
                        in_loop |-> bridge.in_loop, args |-> bridge.args, beh |-> bridge.beh]
            /\ bridge' = BridgeIdle
    /\ UNCHANGED <<worker, future, coro, brOthers>>

\* line 44: asyncio.run(async_func(*args, **kwargs)) in the calling thread
RunDirect ==
    /\ bridge.pc = "run_direct"
    /\ IF bridge.in_loop
       THEN \* asyncio.run() cannot be called from a running event loop
            /\ bret' = [kind |-> "raise", out |-> [kind |-> "raise", exc |-> NestedLoopError],
                        via |-> "direct", in_loop |-> bridge.in_loop, args |-> bridge.args,
                        beh |-> bridge.beh]
            /\ bridge' = BridgeIdle
            /\ UNCHANGED coro
       ELSE /\ coro' = [state |-> "running", thread |-> "caller", args |-> bridge.args,
                        left |-> bridge.beh.awaits]
            /\ bridge' = [bridge EXCEPT !.pc = "driving"]
            /\ UNCHANGED bret
    /\ UNCHANGED <<worker, future, brOthers>>

\* the coroutine completes in the calling thread: line 44 returns or raises
DirectFinish ==
    /\ bridge.pc = "driving"
    /\ coro.state = "running" /\ coro.left = 0
    /\ bridge.beh.kind # "never"
    /\ coro' = [coro EXCEPT !.state = "finished"]
    /\ bret' = [kind |-> bridge.beh.kind, out |-> Outcome(bridge.beh, coro.args),
                via |-> "direct", in_loop |-> bridge.in_loop, args |-> bridge.args,
                beh |-> bridge.beh]
    /\ bridge' = BridgeIdle
    /\ UNCHANGED <<worker, future, brOthers>>

(***************************************************************************)
(* Toolkit loading (agno_toolkits.py) and its use at start-up (main.py).   *)
(***************************************************************************)
\* AVAILABLE_TOOLKITS (agno_toolkits.py:168-173)
AVAILABLE_TOOLKITS == {"gmail", "calendar", "hackernews", "arxiv"}
ToolkitNames == AVAILABLE_TOOLKITS \cup {"unknown"}
\* the keyword parameters of each factory
FactoryParams(name) ==
    CASE name = "gmail" -> {"credentials_path", "token_path"}
      [] name = "calendar" -> {"credentials_path", "token_path", "allow_update"}
      [] name = "hackernews" -> {}
      [] name = "arxiv" -> {}
\* the keyword arguments drawn, by their names
KwargSets == SUBSET {"credentials_path", "allow_update"}
\* what the environment of the factory is like: the toolkit is built, its
\* module is not installed, or its constructor fails (credentials)
Environments == {"ok", "import_error", "construct_error"}
\* the prefixes main.py registers the toolkits under (main.py:49-66)
Prefix(name) ==
    CASE name = "gmail" -> "gmail_"
      [] name = "calendar" -> "cal_"
      [] name = "hackernews" -> "hn_"
      [] name = "arxiv" -> "arxiv_"
\* toolkit.functions: the functions of a built toolkit. An item is the callable
\* itself, or (wrapped) a descriptor whose entrypoint is the callable; func is
\* the callable, description the descriptor's description, doc the callable's
\* __doc__, and "None" stands for None
Falsy == {"None", ""}
QuerySig == <<[name |-> "query", ann |-> Class("str"), default |-> EmptyDefault]>>
GetSig == <<[name |-> "id", ann |-> Class("str"), default |-> EmptyDefault],
            [name |-> "limit", ann |-> Class("int"), default |-> "10"]>>
Item(toolkit, name, wrapped, description, docstring, sg) ==
    [name |-> name, func |-> toolkit \o "." \o name, wrapped |-> wrapped,
     description |-> description, doc |-> docstring, sig |-> sg]
ToolkitFunctions(name) ==
    CASE name = "gmail" ->
            <<Item(name, "search", TRUE, "Search mail", "Search the mailbox.", QuerySig),
              Item(name, "get", TRUE, "None", "Get one message.", GetSig)>>
      [] name = "calendar" ->
            <<Item(name, "search", TRUE, "", "None", QuerySig),
              Item(name, "get", FALSE, "None", "Get one event.", GetSig)>>
      [] name = "hackernews" ->
            <<Item(name, "search", FALSE, "None", "None", QuerySig),
              Item(name, "get", FALSE, "None", "", GetSig)>>
      [] name = "arxiv" ->
            <<Item(name, "search", TRUE, "Search papers", "None", QuerySig),
              Item(name, "get", FALSE, "None", "Get one paper.", GetSig)>>

\* f"{name} from {toolkit.name}"
Synthesized(name, toolkit_name) == name \o " from " \o toolkit_name

\* x or y
Or(x, y) == IF x \in Falsy THEN y ELSE x

\* lines 28-33: the description of one item of toolkit.functions
Description(f, toolkit_name) ==
    IF f.wrapped
    THEN Or(f.description, Synthesized(f.name, toolkit_name))
    ELSE Or(f.doc, Synthesized(f.name, toolkit_name))

\* extract_toolkit_functions(toolkit): name -> (callable, description), in the
\* order of toolkit.functions
extract_toolkit_functions(toolkit) ==
    [i \in 1..Len(toolkit.functions) |->
        LET f == toolkit.functions[i]
        IN [name |-> f.name, func |-> f.func,
            description |-> Description(f, toolkit.name), sig |-> f.sig]]

\* factory(**kwargs): the call binds when every keyword is a parameter of the
\* factory; otherwise Python raises TypeError before the body runs
Binds(name, kwargs) == kwargs \subseteq FactoryParams(name)

\* load_agno_toolkit(name, **kwargs) in environment env
load_agno_toolkit(name, kwargs, env) ==
    IF name \notin AVAILABLE_TOOLKITS
    THEN [kind |-> "none", why |-> "unknown"]
    ELSE IF ~Binds(name, kwargs)
    THEN [kind |-> "raised", exc |-> "TypeError"]
    ELSE IF env = "import_error" THEN [kind |-> "none", why |-> "ImportError"]
    ELSE IF env = "construct_error" THEN [kind |-> "none", why |-> "Exception"]
    ELSE [kind |-> "toolkit", name |-> name, functions |-> ToolkitFunctions(name)]

NoLoad == [called |-> FALSE]

InitToolkits == loaded = NoLoad

\* main.py: toolkit = load_agno_toolkit(name, **kwargs)
LoadToolkit(name, kwargs, env) ==
    /\ loaded' = [called |-> TRUE, name |-> name, kwargs |-> kwargs, env |-> env,
                  got |-> load_agno_toolkit(name, kwargs, env),
                  before |-> tools, registered |-> <<>>]
    /\ UNCHANGED <<regVars, tkOthers>>

\* register_toolkit's loop: registry.register(prefix + name, func, description)
\* for each function, parameters inferred from the signature
RECURSIVE RegisterAll(_, _, _)
RegisterAll(d, functions, prefix) ==
    IF functions = <<>> THEN d
    ELSE LET f == Head(functions)
             tool_name == prefix \o f.name
         IN RegisterAll(DictSet(d, tool_name,
                                ToolDefinition(tool_name, f.func, f.description,
                                               extract_parameters(f.sig))),
                        Tail(functions), prefix)

\* main.py: if toolkit: registered = register_toolkit(registry, toolkit, prefix)
RegisterToolkit ==
    /\ loaded.called
    /\ loaded.got.kind = "toolkit"
    /\ loaded.registered = <<>>
    /\ LET fs == extract_toolkit_functions(loaded.got)
           prefix == Prefix(loaded.name)
       IN /\ Len(regLog) + Len(fs) <= MaxRegs
          /\ tools' = RegisterAll(tools, fs, prefix)
          /\ regLog' = regLog \o [i \in 1..Len(fs) |->
                            [name |-> prefix \o fs[i].name, func |-> fs[i].func,
                             description |-> fs[i].description, parameters |-> NoneParameters]]
          /\ loaded' = [loaded EXCEPT !.registered =
                            [i \in 1..Len(fs) |-> prefix \o fs[i].name]]
    /\ UNCHANGED <<doc, tkOthers>>

(***************************************************************************)
(* Workspace file gateway (builtin.py) and save_and_run_python_file.       *)
(*                                                                         *)
(* An absolute path is the sequence of its components from the filesystem  *)
(* root <<>>.  The filesystem holds directories, regular files with their  *)
(* content, and one symbolic link inside the workspace that points to a    *)
(* directory outside it.                                                   *)
(***************************************************************************)
\* WORKSPACE_DIR (builtin.py:16, code_tools.py:19, main.py:38)
WORKSPACE_DIR == <<"workspace">>
Symlinks == [p \in {<<"workspace", "link">>} |-> <<"out">>]
InitDirs == {<<>>, <<"workspace">>, <<"workspace", "sub">>, <<"out">>}
InitFiles == [p \in {<<"out", "d">>} |-> "c0"]
Contents == {"c1", "c2"}

Parent(p) == IF p = <<>> THEN <<>> ELSE SubSeq(p, 1, Len(p) - 1)
Last(p) == p[Len(p)]
SeqsUpTo(S, n) == UNION {[1..k -> S] : k \in 0..n}

\* a path argument: relative (abs = FALSE), or absolute below base
Join(root, arg) == IF arg.abs THEN arg.base \o arg.segs ELSE root \o arg.segs

\* what the operating system does with a path: every component but the last
\* must lead to a directory, a link is followed, ".." goes to the parent
RECURSIVE Walk(_, _)
Walk(cur, rest) ==
    IF rest = <<>> THEN [ok |-> TRUE, path |-> cur]
    ELSE LET s == Head(rest)
             cand == Append(cur, s)
             next == IF s = ".." THEN Parent(cur)
                     ELSE IF cand \in DOMAIN Symlinks THEN Symlinks[cand]
                     ELSE cand
         IN IF Tail(rest) # <<>> /\ next \notin dirs
            THEN [ok |-> FALSE, path |-> next]
            ELSE Walk(next, Tail(rest))
Lookup(p) == Walk(<<>>, p)
OsExists(p) == Lookup(p).ok /\ Lookup(p).path \in dirs \cup DOMAIN files
OsIsDir(p) == Lookup(p).ok /\ Lookup(p).path \in dirs

\* os.path.realpath, not strict: ".." drops the last component, a link is
\* replaced by its target, a missing component is kept as it is
RECURSIVE Canon(_, _)
Canon(cur, rest) ==
    IF rest = <<>> THEN cur
    ELSE LET s == Head(rest)
             cand == Append(cur, s)
         IN IF s = ".." THEN Canon(Parent(cur), Tail(rest))
            ELSE IF cand \in DOMAIN Symlinks THEN Canon(Symlinks[cand], Tail(rest))
            ELSE Canon(cand, Tail(rest))

\* a resolve that joins the path and canonicalises nothing
ResolveLexical(p) == p

\* Path.resolve()
Resolve(p) == Canon(<<>>, p)

\* PurePath.is_relative_to(root): root is a prefix of p, component by component
IsRelativeTo(p, root) == Len(p) >= Len(root) /\ SubSeq(p, 1, Len(root)) = root

NoCall == [op |-> "none"]

InitFs ==
    /\ files = InitFiles
    /\ dirs = InitDirs
    /\ ret = NoCall

\* the except clauses of the gateway: `except Exception as e`
GatewayCatches(e) == e \in {"OSError", "ValueError", "NotImplementedError"}

\* read_workspace_file(path): what the call returns, and the paths it read
read_workspace_file(arg) ==
    LET file_path == Resolve(Join(WORKSPACE_DIR, arg))
        workspace_resolved == Resolve(WORKSPACE_DIR)
        at == Lookup(file_path)
    IN IF ~IsRelativeTo(file_path, workspace_resolved)
       THEN [op |-> "read", arg |-> arg, kind |-> "outside", raised |-> FALSE,
             touched |-> {}]
       ELSE IF ~OsExists(file_path)
       THEN [op |-> "read", arg |-> arg, kind |-> "not_found", raised |-> FALSE,
             touched |-> {}]
       ELSE IF at.path \in dirs
       THEN \* read_text() of a directory: IsADirectoryError, caught at line 177
            [op |-> "read", arg |-> arg, kind |-> "error",
             raised |-> ~GatewayCatches("OSError"), touched |-> {}]
       ELSE [op |-> "read", arg |-> arg, kind |-> "content", raised |-> FALSE,
             data |-> files[at.path], touched |-> {at.path}]

ReadFile(arg) ==
    /\ ret' = read_workspace_file(arg)
    /\ UNCHANGED <<files, dirs, fsOthers>>

\* a mkdir that makes no directory
AncestorsNone(q) == {}

\* the directories Path.mkdir(parents=True, exist_ok=True) makes sure of for q:
\* q and every directory above it
Ancestors(q) == {SubSeq(q, 1, n) : n \in 0..Len(q)}

\* where the operating system puts p once the directories on the way exist
Physical(p) == Canon(<<>>, p)

\* write_workspace_file(path, content)
WriteFile(arg, content) ==
    LET file_path == Resolve(Join(WORKSPACE_DIR, arg))
        workspace_resolved == Resolve(WORKSPACE_DIR)
        par == Physical(Parent(file_path))
        new == Ancestors(par) \ dirs
        at == Physical(file_path)
    IN IF ~IsRelativeTo(file_path, workspace_resolved)
       THEN /\ ret' = [op |-> "write", arg |-> arg, kind |-> "outside", raised |-> FALSE,
                       touched |-> {}]
            /\ UNCHANGED <<files, dirs, fsOthers>>
       ELSE IF Ancestors(par) \cap DOMAIN files # {}
       THEN \* file_path.parent.mkdir: a component is a regular file (caught)
            /\ ret' = [op |-> "write", arg |-> arg, kind |-> "error",
                       raised |-> ~GatewayCatches("OSError"), touched |-> {}]
            /\ UNCHANGED <<files, dirs, fsOthers>>
       ELSE IF at \in dirs \cup new
       THEN \* write_text() on a directory: IsADirectoryError (caught), after mkdir
            /\ dirs' = dirs \cup new
            /\ ret' = [op |-> "write", arg |-> arg, kind |-> "error",
                       raised |-> ~GatewayCatches("OSError"), touched |-> new]
            /\ UNCHANGED <<files, fsOthers>>
       ELSE /\ dirs' = dirs \cup new
            /\ files' = [p \in DOMAIN files \cup {at} |->
                            IF p = at THEN content ELSE files[p]]
            /\ ret' = [op |-> "write", arg |-> arg, kind |-> "written", raised |-> FALSE,
                       data |-> content, touched |-> new \cup {at}]
            /\ UNCHANGED fsOthers

\* the names a directory listing can hold
EntryNames == {"d", "link", "sub", "out", "workspace"}
\* os.scandir(p): the names of the entries of directory p
Entries(p) ==
    IF ~OsIsDir(p) THEN {}
    ELSE {n \in EntryNames :
            Append(Lookup(p).path, n) \in dirs \cup DOMAIN files \cup DOMAIN Symlinks}

\* "**": the directory itself and the directories below it, links not followed
RECURSIVE Descend(_)
Descend(S) ==
    LET N == S \cup {q \in {Append(p, n) : p \in S, n \in EntryNames} :
                        /\ Last(q) \in Entries(Parent(q))
                        /\ Append(Lookup(Parent(q)).path, Last(q)) \in dirs}
    IN IF N = S THEN S ELSE Descend(N)

\* one pattern component applied to the paths matched so far (pathlib's
\* _PreciseSelector, _WildcardSelector and _RecursiveWildcardSelector); dironly
\* when more components follow
Select(S, s, dironly) ==
    LET from == {p \in S : OsIsDir(p)}
    IN IF s = "**" THEN Descend(from)
       ELSE IF s = "*"
       THEN {q \in {Append(p, n) : p \in from, n \in EntryNames} :
                /\ Last(q) \in Entries(Parent(q))
                /\ dironly => OsIsDir(q)}
       ELSE {q \in {Append(p, s) : p \in from} :
                IF dironly THEN OsIsDir(q) ELSE OsExists(q)}

RECURSIVE GlobFrom(_, _)
GlobFrom(S, pat) ==
    IF pat = <<>> THEN S
    ELSE GlobFrom(Select(S, Head(pat), Tail(pat) # <<>>), Tail(pat))

\* Path.glob(pattern): the matches, as paths written below root
Glob(root, pat) == GlobFrom({root}, pat)

\* the order of path components as strings
NameRank(n) ==
    CASE n = ".." -> 1 [] n = "d" -> 2 [] n = "link" -> 3 [] n = "out" -> 4
      [] n = "sub" -> 5 [] n = "workspace" -> 6
RECURSIVE PathLess(_, _)
PathLess(p, q) ==
    IF p = <<>> THEN q # <<>>
    ELSE IF q = <<>> THEN FALSE
    ELSE IF Head(p) = Head(q) THEN PathLess(Tail(p), Tail(q))
    ELSE NameRank(Head(p)) < NameRank(Head(q))
\* sorted(files)
RECURSIVE Sorted(_)
Sorted(S) ==
    IF S = {} THEN <<>>
    ELSE LET m == CHOOSE x \in S : \A y \in S \ {x} : PathLess(x, y)
         IN <<m>> \o Sorted(S \ {m})

\* f.relative_to(WORKSPACE_DIR): the components after the root's
RelativeTo(p, root) == SubSeq(p, Len(root) + 1, Len(p))

\* list_workspace_files(pattern)
ListFiles(pat) ==
    /\ ret' =
        IF pat.abs \/ pat.segs = <<>>
        THEN \* glob raises NotImplementedError or ValueError, caught at line 222
             [op |-> "list", arg |-> pat, kind |-> "error",
              raised |-> ~GatewayCatches("ValueError"), touched |-> {}]
        ELSE LET found == Sorted(Glob(WORKSPACE_DIR, pat.segs))
             IN IF found = <<>>
                THEN [op |-> "list", arg |-> pat, kind |-> "no_match", raised |-> FALSE,
                      touched |-> {}]
                ELSE [op |-> "list", arg |-> pat, kind |-> "listing", raised |-> FALSE,
                      entries |-> [i \in 1..Len(found) |-> RelativeTo(found[i], WORKSPACE_DIR)],
                      touched |-> {}]
    /\ UNCHANGED <<files, dirs, fsOthers>>

\* file_name.endswith(".py") and file_name += ".py", on the last component
EndsWithPy(n) == n \in {"s.py"}
WithPy(segs) ==
    IF EndsWithPy(Last(segs)) THEN segs
    ELSE [segs EXCEPT ![Len(segs)] = @ \o ".py"]

\* save_and_run_python_file(file_name, code); found: "python" is on PATH;
\* outcome: what the script does when run
SaveAndRun(arg, code, found, outcome) ==
    LET named == [arg EXCEPT !.segs = WithPy(arg.segs)]
        file_path == Join(WORKSPACE_DIR, named)
        at == Lookup(file_path)
    IN IF ~at.ok \/ at.path \in dirs
       THEN \* write_text raises FileNotFoundError, NotADirectoryError or
            \* IsADirectoryError: nothing catches it
            /\ ret' = [op |-> "save_run", arg |-> arg, kind |-> "raised", raised |-> TRUE,
                       touched |-> {}]
            /\ UNCHANGED <<files, dirs, fsOthers>>
       ELSE /\ files' = [p \in DOMAIN files \cup {at.path} |->
                            IF p = at.path THEN code ELSE files[p]]
            /\ ret' = IF ~found
                      THEN \* subprocess.run raises FileNotFoundError
                           [op |-> "save_run", arg |-> arg, kind |-> "raised",
                            raised |-> TRUE, touched |-> {at.path}]
                      ELSE [op |-> "save_run", arg |-> arg, kind |-> outcome,
                            raised |-> FALSE, touched |-> {at.path}, ran |-> at.path]
            /\ UNCHANGED <<dirs, fsOthers>>

\* uv_add(package); found: "uv" is on PATH; ok: uv exits with code 0
UvAdd(found, ok) ==
    /\ ret' = IF ~found
              THEN \* subprocess.run raises FileNotFoundError: nothing catches it
                   [op |-> "uv_add", kind |-> "raised", raised |-> TRUE, touched |-> {}]
              ELSE [op |-> "uv_add", kind |-> IF ok THEN "installed" ELSE "failed",
                    raised |-> FALSE, touched |-> {}]
    /\ UNCHANGED <<files, dirs, fsOthers>>

\* the arguments drawn
Segs == {"..", "d", "link"}
AbsBases == {<<"out">>}
PathArgs ==
    [abs : {FALSE}, base : {<<>>}, segs : SeqsUpTo(Segs, MaxPathLen)]
    \cup [abs : {TRUE}, base : AbsBases, segs : SeqsUpTo(Segs, 1)]
PatSegs == {"..", "d", "link", "*", "**"}
Patterns ==
    [abs : {FALSE}, base : {<<>>}, segs : SeqsUpTo(PatSegs, MaxPathLen)]
    \cup [abs : {TRUE}, base : AbsBases, segs : {<<"*">>}]
FileDirs == {"..", "sub", "d"}
FileLasts == {"s", "s.py"}
FileSegs == {Append(pre, n) : pre \in SeqsUpTo(FileDirs, MaxPathLen - 1), n \in FileLasts}
FileNames ==
    [abs : {FALSE}, base : {<<>>}, segs : FileSegs]
    \cup [abs : {TRUE}, base : AbsBases, segs : FileSegs]
Codes == {"code"}
\* how the saved script ends: non-zero exit, output with warnings, output, nothing
Outcomes == {"error_running", "output_warnings", "output", "no_output"}

(***************************************************************************)
(* Agent configuration: the /config routes over config/agents.json.        *)
(* Names and ids are strings the code takes apart, so they are kept as     *)
(* sequences of characters.                                                *)
(***************************************************************************)
\* at most this many custom agents are stored
MaxAgents == 2

\* None, where a field of a request or of an entry holds it
NoneValue == <<"<None>">>

Chars(s) == {s[i] : i \in 1..Len(s)}

\* str.lower(), on the letters the names below use
LowerChar(c) == IF c = "G" THEN "g" ELSE IF c = "A" THEN "a" ELSE c
Lower(s) == [i \in 1..Len(s) |-> LowerChar(s[i])]

\* str.replace(old, new) for one-character strings
Replace(s, old, new) == [i \in 1..Len(s) |-> IF s[i] = old THEN new ELSE s[i]]

\* s[:n]
Truncate(s, n) == SubSeq(s, 1, IF Len(s) < n THEN Len(s) ELSE n)

\* config_routes.py:127: the slug keeps at most 20 characters
SlugLen == 20
\* config_routes.py:128: the first 8 characters of the UUID
ShortLen == 8

\* str(uuid.uuid4()): 36 characters, hyphens after 8, 13, 18 and 23; the
\* digits are random, and nothing in the code compares them with earlier ones
Uuid(h) == [i \in 1..36 |-> IF i \in {9, 14, 19, 24} THEN "-" ELSE IF i = 15 THEN "4" ELSE h]
Uuids == {Uuid("0"), Uuid("f")}

\* an id generator that leaves the suffix out
generate_id_slug_only(name, uuid4) == Truncate(Replace(Lower(name), " ", "-"), SlugLen)

\* _generate_id(name), with uuid4 the string the call to uuid.uuid4() gives
generate_id(name, uuid4) ==
    LET slug == Truncate(Replace(Lower(name), " ", "-"), SlugLen)
        short_id == Truncate(uuid4, ShortLen)
    IN slug \o <<"-">> \o short_id

\* the names a client sends: two that are equal ignoring case (and whose slug
\* is a built-in id), and one of 21 characters with a space and a slash
NameGeneral == <<"G", "e", "n", "e", "r", "a", "l">>
NameGeneralLower == <<"g", "e", "n", "e", "r", "a", "l">>
NameLong == <<"A", " ", "/">> \o [i \in 1..18 |-> "b"]
Names == {NameGeneral, NameGeneralLower, NameLong}

DefaultInstructions == "You are a helpful AI assistant."
DefaultModel == "mistralai/devstral-2512:free"

\* agents.py:93-144
BUILTIN_AGENT_CONFIGS ==
    <<[id |-> <<"g", "e", "n", "e", "r", "a", "l">>,
       name |-> <<"G", "e", "n", "e", "r", "a", "l", " ", "A", "s", "s", "i", "s", "t", "a", "n", "t">>,
       description |-> "General-purpose AI assistant for any task",
       model_id |-> "mistralai/devstral-2512:free",
       instructions |-> "You are a helpful general-purpose AI assistant."],
      [id |-> <<"c", "o", "d", "i", "n", "g">>,
       name |-> <<"C", "o", "d", "i", "n", "g", " ", "A", "s", "s", "i", "s", "t", "a", "n", "t">>,
       description |-> "Expert programming assistant for development tasks",
       model_id |-> "mistralai/devstral-2512:free",
       instructions |-> "You are an expert coding assistant specializing in software development."]>>

BuiltinIds == {BUILTIN_AGENT_CONFIGS[i].id : i \in 1..Len(BUILTIN_AGENT_CONFIGS)}

\* d[config.id] = config on an insertion-ordered dict keyed by id
ConfigSet(d, v) ==
    IF \E i \in 1..Len(d) : d[i].id = v.id
    THEN [d EXCEPT ![CHOOSE i \in 1..Len(d) : d[i].id = v.id] = v]
    ELSE Append(d, v)

RECURSIVE LoadFrom(_, _)
LoadFrom(d, data) ==
    IF data = <<>> THEN d ELSE LoadFrom(ConfigSet(d, Head(data)), Tail(data))

\* _load_json(AGENTS_FILE): the list in the file, [] when the file is missing
load_json(file) == file

\* load_custom_agents(): {agent["id"]: AgentConfig(...) for agent in data}. The
\* routes write every key of every entry, so the except branch is not taken
load_custom_agents(file) == LoadFrom(<<>>, file)

\* get_all_agent_configs(): {**BUILTIN_AGENT_CONFIGS, **custom}
get_all_agent_configs(file) == LoadFrom(BUILTIN_AGENT_CONFIGS, load_custom_agents(file))

ConfigIds(configs) == {configs[i].id : i \in 1..Len(configs)}

\* a check that lets every id through
KnownAgentAlways(agent_id, all_configs) == TRUE

\* config_routes.py:409: agent_id in all_configs
KnownAgent(agent_id, all_configs) == agent_id \in ConfigIds(all_configs)

\* list_all_agents(): the built-in entries, then the custom ones
list_all_agents(file) ==
    LET custom == load_custom_agents(file)
        Entry(config, builtin) ==
            [id |-> config.id, name |-> config.name, description |-> config.description,
             model |-> config.model_id, builtin |-> builtin]
    IN [i \in 1..Len(BUILTIN_AGENT_CONFIGS) |-> Entry(BUILTIN_AGENT_CONFIGS[i], TRUE)]
       \o [i \in 1..Len(custom) |-> Entry(custom[i], FALSE)]

\* a route with {agent_id} in its path matches one non-empty path segment: a
\* request whose id holds a slash reaches no handler and the router answers 404
Routable(agent_id) == agent_id # <<>> /\ "/" \notin Chars(agent_id)

NoAgent == [kind |-> "none"]
NoResp == [op |-> "none", status |-> 0, agent_id |-> <<>>, detail |-> <<>>, body |-> <<>>,
           agent |-> NoAgent]
Response(op, status, agent_id, detail, body) ==
    [op |-> op, status |-> status, agent_id |-> agent_id, detail |-> detail, body |-> body,
     agent |-> NoAgent]
RouterNotFound(op, agent_id) == Response(op, 404, agent_id, <<"Not Found">>, <<>>)

InitConfig ==
    /\ agentsFile = <<>>
    /\ resp = NoResp

\* any(a["name"].lower() == name.lower() for a in agents): the scan stops at the
\* first match, and raises AttributeError at an entry whose name is None
RECURSIVE AnyNameEquals(_, _)
AnyNameEquals(agents, name) ==
    IF agents = <<>> THEN "false"
    ELSE IF Head(agents).name = NoneValue THEN "raised"
    ELSE IF Lower(Head(agents).name) = Lower(name) THEN "true"
    ELSE AnyNameEquals(Tail(agents), name)

WithBuiltinFalse(agent) ==
    [id |-> agent.id, name |-> agent.name, description |-> agent.description,
     model_id |-> agent.model_id, instructions |-> agent.instructions, builtin |-> FALSE]

\* response_model=AgentConfigResponse: name, description, model_id and
\* instructions are declared str
ResponseValid(agent) ==
    /\ agent.name # NoneValue

\* POST /config/agents
CreateAgent(name, uuid4) ==
    /\ Len(agentsFile) < MaxAgents
    /\ LET agents == load_json(agentsFile)
           dup == AnyNameEquals(agents, name)
           new_agent == [id |-> generate_id(name, uuid4), name |-> name, description |-> "",
                         model_id |-> DefaultModel, instructions |-> DefaultInstructions]
       IN IF dup = "raised"
          THEN /\ resp' = Response("create", 500, <<>>, <<"Internal Server Error">>, <<>>)
               /\ UNCHANGED agentsFile
          ELSE IF dup = "true"
          THEN /\ resp' = Response("create", 400, <<>>,
                                   <<"Agent with this name already exists">>, <<>>)
               /\ UNCHANGED agentsFile
          ELSE /\ agentsFile' = Append(agents, new_agent)
               /\ resp' = Response("create", 201, new_agent.id, <<>>,
                                   <<WithBuiltinFalse(new_agent)>>)
    /\ UNCHANGED cfOthers

\* for i, agent in enumerate(agents): if agent["id"] == agent_id
Found(agents, agent_id) == \E i \in 1..Len(agents) : agents[i].id = agent_id
FirstWithId(agents, agent_id) ==
    CHOOSE i \in 1..Len(agents) :
        /\ agents[i].id = agent_id
        /\ \A j \in 1..(i - 1) : agents[j].id # agent_id

\* {**agent, **update_data}
Merge(agent, update_data) ==
    [f \in DOMAIN agent |-> IF f \in DOMAIN update_data THEN update_data[f] ELSE agent[f]]

\* PUT /config/agents/{agent_id}; update_data = updates.model_dump(exclude_unset=True).
\* The merged entry is saved before the response is validated
UpdateAgent(agent_id, update_data) ==
    /\ LET agents == load_json(agentsFile)
       IN IF ~Routable(agent_id)
          THEN /\ resp' = RouterNotFound("update", agent_id)
               /\ UNCHANGED agentsFile
          ELSE IF ~Found(agents, agent_id)
          THEN /\ resp' = Response("update", 404, agent_id, <<"Agent not found">>, <<>>)
               /\ UNCHANGED agentsFile
          ELSE LET i == FirstWithId(agents, agent_id)
                   merged == Merge(agents[i], update_data)
               IN /\ agentsFile' = [agents EXCEPT ![i] = merged]
                  /\ resp' = IF ResponseValid(merged)
                             THEN Response("update", 200, agent_id, <<>>,
                                           <<WithBuiltinFalse(merged)>>)
                             ELSE Response("update", 500, agent_id,
                                           <<"Internal Server Error">>, <<>>)
    /\ UNCHANGED cfOthers

\* agents.pop(i)
Pop(agents, i) == SubSeq(agents, 1, i - 1) \o SubSeq(agents, i + 1, Len(agents))

\* DELETE /config/agents/{agent_id}
DeleteAgent(agent_id) ==
    /\ LET agents == load_json(agentsFile)
       IN IF ~Routable(agent_id)
          THEN /\ resp' = RouterNotFound("delete", agent_id)
               /\ UNCHANGED agentsFile
          ELSE IF ~Found(agents, agent_id)
          THEN /\ resp' = Response("delete", 404, agent_id, <<"Agent not found">>, <<>>)
               /\ UNCHANGED agentsFile
          ELSE /\ agentsFile' = Pop(agents, FirstWithId(agents, agent_id))
               /\ resp' = Response("delete", 204, agent_id, <<>>, <<>>)
    /\ UNCHANGED cfOthers

\* GET /config/all-agents
ListAllAgents ==
    /\ resp' = Response("list", 200, <<>>, <<>>, list_all_agents(agentsFile))
    /\ UNCHANGED <<agentsFile, cfOthers>>

\* agents.create_agent(agent_id, ...): ValueError for an unknown id, else an
\* Agent built from the configuration read afresh
create_agent(agent_id, file) ==
    LET all_configs == get_all_agent_configs(file)
    IN IF agent_id \notin ConfigIds(all_configs)
       THEN [kind |-> "raised", exc |-> "ValueError"]
       ELSE LET config == all_configs[CHOOSE i \in 1..Len(all_configs) :
                                            all_configs[i].id = agent_id]
            IN [kind |-> "agent", id |-> agent_id, model |-> config.model_id,
                description |-> config.description, instructions |-> config.instructions]

\* main.get_agent(agent_id)
get_agent(agent_id, file) == create_agent(agent_id, file)

\* main.get_or_create_agent(agent_id), which config_routes imports
get_or_create_agent(agent_id, file) == get_agent(agent_id, file)

\* POST /config/agents/{agent_id}/runs; arun_ok: agent.arun(...) gave a response
RunDynamicAgent(agent_id, arun_ok) ==
    /\ LET all_configs == get_all_agent_configs(agentsFile)
       IN IF ~Routable(agent_id)
          THEN resp' = RouterNotFound("run", agent_id)
          ELSE IF ~KnownAgent(agent_id, all_configs)
          THEN resp' = Response("run", 404, agent_id,
                                <<"Agent '", agent_id, "' not found">>, <<>>)
          ELSE LET agent == get_or_create_agent(agent_id, agentsFile)
               IN resp' = [Response("run", IF agent.kind = "agent" /\ arun_ok THEN 200 ELSE 500,
                                    agent_id, <<>>, <<>>)
                           EXCEPT !.agent = agent]
    /\ UNCHANGED <<agentsFile, cfOthers>>

\* the updates a client sends: nothing set, or the name set to a name or to null
Updates == {<<>>} \cup {[name |-> v] : v \in Names \cup {NoneValue}}

\* the ids a client asks for: the built-in ones, every id a create can have
\* given, and one that nothing has
NonexistentAgent == <<"n", "o", "n", "e", "x", "i", "s", "t", "e", "n", "t", "-", "a", "g", "e", "n", "t">>
RequestIds ==
    BuiltinIds \cup {NonexistentAgent} \cup {generate_id(n, u) : n \in Names, u \in Uuids}

(***************************************************************************)
(* Database-backed agents: the CRUD API over the agents table and the      *)
(* DynamicAgentRegistry that builds Agent instances from its rows.         *)
(***************************************************************************)
DbIds == {"id1", "id2"}
DbNames == {"n1", "n2"}
DbInstructions == {"i1", "i2"}
DbNone == "<None>"

NoRow == [present |-> FALSE]
NoGet == [called |-> FALSE]

InitDb ==
    /\ rows = [i \in {} |-> NoRow]
    /\ agents_cache = [i \in {} |-> NoAgent]
    /\ got = NoGet

\* api/agents.py create_agent: a row with a fresh primary key
DbCreateAgent(id, name, instructions) ==
    /\ id \notin DOMAIN rows
    /\ rows' = [i \in DOMAIN rows \cup {id} |->
                    IF i = id
                    THEN [present |-> TRUE, name |-> name, instructions |-> instructions,
                          is_builtin |-> FALSE]
                    ELSE rows[i]]
    /\ UNCHANGED <<agents_cache, got, dbOthers>>

\* lines 154-158: a field the request sets to a value that is not None
Apply(row, update_data) ==
    [f \in DOMAIN row |->
        IF f \in DOMAIN update_data /\ update_data[f] # DbNone THEN update_data[f] ELSE row[f]]

\* api/agents.py update_agent, for a row that exists and is not built in (the
\* other requests end in 404 or 403 and change nothing)
DbUpdateAgent(id, update_data) ==
    /\ id \in DOMAIN rows
    /\ ~rows[id].is_builtin
    /\ rows' = [rows EXCEPT ![id] = Apply(rows[id], update_data)]
    /\ UNCHANGED <<agents_cache, got, dbOthers>>

\* api/agents.py delete_agent, likewise
DbDeleteAgent(id) ==
    /\ id \in DOMAIN rows
    /\ ~rows[id].is_builtin
    /\ rows' = [i \in DOMAIN rows \ {id} |-> rows[i]]
    /\ UNCHANGED <<agents_cache, got, dbOthers>>

\* AgentLoader.load_from_model(agent_model)
load_from_model(row) ==
    [kind |-> "agent", name |-> row.name,
     instructions |-> IF row.instructions # DbNone THEN <<row.instructions>> ELSE DbNone]

\* AgentLoader.load_from_db(agent_id, db)
load_from_db(agent_id, table) ==
    IF agent_id \notin DOMAIN table THEN NoAgent ELSE load_from_model(table[agent_id])

\* line 33: if agent_id in self._agents_cache
CacheHit(cache, agent_id) == agent_id \in DOMAIN cache

\* line 38: if agent
Cacheable(agent) == agent # NoAgent

\* DynamicAgentRegistry.get_agent(agent_id, db)
RegistryGetAgent(agent_id) ==
    /\ LET agent == IF CacheHit(agents_cache, agent_id) THEN agents_cache[agent_id]
                    ELSE load_from_db(agent_id, rows)
       IN /\ agents_cache' =
                IF ~CacheHit(agents_cache, agent_id) /\ Cacheable(agent)
                THEN [i \in DOMAIN agents_cache \cup {agent_id} |->
                          IF i = agent_id THEN agent ELSE agents_cache[i]]
                ELSE agents_cache
          /\ got' = [called |-> TRUE, agent_id |-> agent_id, agent |-> agent,
                     row |-> IF agent_id \in DOMAIN rows THEN rows[agent_id] ELSE NoRow]
    /\ UNCHANGED <<rows, dbOthers>>

DbUpdates ==
    {[name |-> n] : n \in DbNames \cup {DbNone}}
    \cup {[instructions |-> n] : n \in DbInstructions \cup {DbNone}}

(***************************************************************************)
(* Specifications.                                                         *)
(***************************************************************************)
Init == InitExec /\ InitRegistry /\ InitSchema /\ InitFs /\ InitNamespace /\ InitBridge /\ InitToolkits /\ InitConfig /\ InitDb

NextRegistry ==
    \/ \E name \in ToolNames, func \in RegFuncs, description \in Descriptions,
          parameters \in ParameterArgs : Register(name, func, description, parameters)
    \/ GenerateInstructions

\* the registry: register and generate_instructions in any order
Spec == Init /\ [][NextRegistry]_vars

NextSchema == InferSchema

InitInferencer == InitExec /\ InitRegistry /\ InitSchemaInputs /\ InitFs /\ InitNamespace /\ InitBridge /\ InitToolkits /\ InitConfig /\ InitDb

\* the schema inferencer applied to every bounded signature
SpecSchema == InitInferencer /\ [][NextSchema]_vars

InitTypeMapping == InitExec /\ InitRegistry /\ InitTypedInputs /\ InitFs /\ InitNamespace /\ InitBridge /\ InitToolkits /\ InitConfig /\ InitDb

\* the inferencer applied to one-parameter callables over every annotation form
SpecTypes == InitTypeMapping /\ [][NextSchema]_vars

\* the registrations drawn where the callables matter and the schemas do not
RegisterAny ==
    \E name \in ToolNames, func \in AllFuncs : Register(name, func, "d1", ExplicitSchema)

NextNamespace ==
    \/ RegisterAny
    \/ GetNamespace
    \/ \E k \in ScriptNames, f \in {UserValue} : SnapshotSet(k, f)
    \/ \E k \in ScriptNames : SnapshotDel(k)

\* callers taking and changing namespace snapshots while tools are registered
SpecNamespace == Init /\ [][NextNamespace]_vars

NextRuns ==
    \/ RegisterAny
    \/ RunStart
    \/ \E n \in ScriptNames : RunDefine(n)
    \/ \E n \in ScriptNames : RunDefineBuiltin(n)
    \/ RunEnd

\* run_python_code called again and again while tools are registered
SpecRuns == Init /\ [][NextRuns]_vars

BridgeSteps ==
    \/ GetRunningLoop
    \/ Submit
    \/ WorkerStart
    \/ CoroStep
    \/ WorkerFinish
    \/ WorkerExit
    \/ FutureResult
    \/ ExitWith
    \/ RunDirect
    \/ DirectFinish

NextBridge ==
    \/ \E in_loop \in BOOLEAN, args \in BridgeArgs, beh \in Behaviours :
            BridgeCall(in_loop, args, beh)
    \/ BridgeSteps

\* the synchronous wrapper called in both contexts, around every behaviour
SpecBridge == Init /\ [][NextBridge]_vars

\* the same, with the threads scheduled and the event loops running: no step
\* of a call that can be taken is put off for ever
SpecBridgeFair == Init /\ [][NextBridge]_vars /\ WF_vars(BridgeSteps)

NextToolkits ==
    \/ \E name \in ToolNames, func \in RegFuncs : Register(name, func, "d1", NoneParameters)
    \/ \E name \in ToolkitNames, kwargs \in KwargSets, env \in Environments :
            LoadToolkit(name, kwargs, env)
    \/ RegisterToolkit

\* start-up: the built-in tools are registered and toolkits are loaded
SpecToolkits == Init /\ [][NextToolkits]_vars

NextFiles ==
    \/ \E arg \in PathArgs : ReadFile(arg)
    \/ \E arg \in PathArgs, content \in Contents : WriteFile(arg, content)
    \/ \E pat \in Patterns : ListFiles(pat)

\* the file gateway: read, write and list in any order
SpecFiles == Init /\ [][NextFiles]_vars

NextReadWrite ==
    \/ \E arg \in PathArgs : ReadFile(arg)
    \/ \E arg \in PathArgs, content \in Contents : WriteFile(arg, content)

\* the file gateway: reads and writes in any order
SpecReadWrite == Init /\ [][NextReadWrite]_vars

NextSaveRun ==
    \/ \E arg \in FileNames, code \in Codes, found \in BOOLEAN, outcome \in Outcomes :
            SaveAndRun(arg, code, found, outcome)
    \/ \E found \in BOOLEAN, ok \in BOOLEAN : UvAdd(found, ok)

\* uv_add and save_and_run_python_file called any number of times
SpecSaveRun == Init /\ [][NextSaveRun]_vars

NextExec ==
    \/ SetToolRegistry
    \/ Call(MainThread, MaxStmts)
    \/ SaveStdout(MainThread)
    \/ SaveStderr(MainThread)
    \/ SetStdout(MainThread)
    \/ SetStderr(MainThread)
    \/ ExecPrint(MainThread)
    \/ ExecEprint(MainThread)
    \/ \E e \in Raisable : ExecRaise(MainThread, e)
    \/ ExecNested(MainThread)
    \/ ExecEnd(MainThread)
    \/ Format(MainThread)
    \/ RestoreStdout(MainThread)
    \/ RestoreStderr(MainThread)
    \/ Return(MainThread)

SpecExec == Init /\ [][NextExec]_vars

\* exceptions drawn in the concurrent specification: one the except clause
\* catches and one it does not
ConcRaisable == {"ValueError", "SystemExit"}

NextExecConc ==
    \/ SetToolRegistry
    \/ \E t \in Threads :
        \/ Call(t, ConcStmts)
        \/ SaveStdout(t)
        \/ SaveStderr(t)
        \/ SetStdout(t)
        \/ SetStderr(t)
        \/ ExecPrint(t)
        \/ ExecEprint(t)
        \/ \E e \in ConcRaisable : ExecRaise(t, e)
        \/ ExecEnd(t)
        \/ Format(t)
        \/ RestoreStdout(t)
        \/ RestoreStderr(t)
        \/ Return(t)

SpecExecConc == Init /\ [][NextExecConc]_vars

NextConfig ==
    \/ \E name \in Names, uuid4 \in Uuids : CreateAgent(name, uuid4)
    \/ \E agent_id \in RequestIds, update_data \in Updates : UpdateAgent(agent_id, update_data)
    \/ \E agent_id \in RequestIds : DeleteAgent(agent_id)
    \/ ListAllAgents
    \/ \E agent_id \in RequestIds, arun_ok \in BOOLEAN : RunDynamicAgent(agent_id, arun_ok)

\* the /config routes called in any order
SpecConfig == Init /\ [][NextConfig]_vars

NextDb ==
    \/ \E id \in DbIds, name \in DbNames, instructions \in DbInstructions \cup {DbNone} :
            DbCreateAgent(id, name, instructions)
    \/ \E id \in DbIds, update_data \in DbUpdates : DbUpdateAgent(id, update_data)
    \/ \E id \in DbIds : DbDeleteAgent(id)
    \/ \E agent_id \in DbIds : RegistryGetAgent(agent_id)

\* the agent CRUD API and the chat endpoint's registry, in any order
SpecDb == Init /\ [][NextDb]_vars

(***************************************************************************)
(* Claims about the executor.                                              *)
(***************************************************************************)
Ended == result.status \in {"returned", "raised"}
Executed == Ended /\ result.ret # [kind |-> "no_registry"]
Rep(x, n) == [i \in 1..n |-> x]
CapturedOut(r) == IF r.kind \in {"output_errors", "stdout"} THEN r.out ELSE <<>>
CapturedErr(r) == IF r.kind = "output_errors" THEN r.err ELSE <<>>

\* C1: every call of run_python_code returns a string: no exception escapes to
\* the caller, and whatever the executed code, a tool or a bridged tool raised
\* has become the diagnostic "Error running code: <message>".
C1_NoExceptionEscapes ==
    Ended => /\ result.status = "returned"
             /\ result.exc # "none" => result.ret = [kind |-> "error", msg |-> result.exc]

\* C2: when a call of run_python_code has ended (normally, by an exception of the
\* executed code, or nested in another run), sys.stdout and sys.stderr are the
\* streams that were attached when it started; once no call is active the
\* process's own streams are attached again.
C2_StreamsRestored ==
    /\ Ended => /\ result.endOut = result.startOut
                /\ result.endErr = result.startErr
    /\ (\A t \in Threads : ~Active(t)) =>
            /\ sys_stdout = OrigStream
            /\ sys_stderr = OrigStream

\* a nested call that an uncaught exception ended, while the outer call is
\* still running with its own buffers attached
C2_Witness ==
    /\ Ended
    /\ result.status = "raised"
    /\ result.startOut # OrigStream
    /\ result.startErr # OrigStream
    /\ Active(MainThread)

\* C3: the text a call's code wrote to stdout and stderr is what that call's
\* result holds: all of it, and nothing another call wrote.
C3_CaptureIsolated ==
    (Executed /\ result.status = "returned" /\ result.exc = "none") =>
        /\ CapturedOut(result.ret) = Rep(result.id, result.nOut)
        /\ CapturedErr(result.ret) = Rep(result.id, result.nErr)

\* C4: the result follows the priority table: an exception gives
\* "Error running code: <message>" alone; else a non-empty stderr gives
\* "Output:..Errors:.." with both texts; else a non-empty stdout gives stdout;
\* else the no-output sentinel.
C4_PriorityTable ==
    Executed =>
        LET out == Rep(result.id, result.nOut)
            err == Rep(result.id, result.nErr)
        IN  result.ret =
                CASE result.exc # "none" -> [kind |-> "error", msg |-> result.exc]
                  [] result.exc = "none" /\ result.nErr > 0 ->
                        [kind |-> "output_errors", out |-> out, err |-> err]
                  [] result.exc = "none" /\ result.nErr = 0 /\ result.nOut > 0 ->
                        [kind |-> "stdout", out |-> out]
                  [] OTHER -> [kind |-> "sentinel"]

(***************************************************************************)
(* Claims about the registry and the schema inferencer.                    *)
(***************************************************************************)
LastIndex(log, n) == CHOOSE k \in 1..Len(log) :
    log[k].name = n /\ \A m \in (k + 1)..Len(log) : log[m].name # n
FirstIndex(log, n) == CHOOSE k \in 1..Len(log) :
    log[k].name = n /\ \A m \in 1..(k - 1) : log[m].name # n
LoggedNames(log) == {log[k].name : k \in 1..Len(log)}
\* the schema a register call stores
StoredSchema(r) ==
    IF r.parameters = NoneParameters THEN extract_parameters(Signature(r.func))
    ELSE r.parameters

\* C8: after any sequence of register calls the registry holds one entry per
\* distinct name, and the entry is the callable, description and schema of the
\* most recent registration of that name.
C8_LastWriterWins ==
    /\ \A i, j \in 1..Len(tools) : i # j => tools[i].name # tools[j].name
    /\ {tools[i].name : i \in 1..Len(tools)} = LoggedNames(regLog)
    /\ \A i \in 1..Len(tools) :
            LET r == regLog[LastIndex(regLog, tools[i].name)]
            IN /\ tools[i].func = r.func
               /\ tools[i].description = r.description
               /\ tools[i].parameters = StoredSchema(r)

\* a name registered twice, with another callable, description and schema the
\* second time
C8_Witness ==
    \E k1, k2 \in 1..Len(regLog) :
        /\ k1 < k2
        /\ regLog[k1].name = regLog[k2].name
        /\ regLog[k1].func # regLog[k2].func
        /\ regLog[k1].description # regLog[k2].description
        /\ StoredSchema(regLog[k1]) # StoredSchema(regLog[k2])
        /\ Len(tools) = 1

\* the tool sections of a document: each "### `name`" line with the description
\* line that follows it
SectionsOf(lines) ==
    LET idx == SelectSeq([i \in 1..Len(lines) |-> i], LAMBDA i : lines[i].k = "tool")
    IN [j \in 1..Len(idx) |->
            [name |-> lines[idx[j]].name,
             description |-> IF idx[j] < Len(lines) /\ lines[idx[j] + 1].k = "description"
                             THEN lines[idx[j] + 1].text ELSE "<none>"]]
\* sequence q lists every name registered in log once, ordered by Index(log, _)
ListsOnceBy(q, log, Index(_, _)) ==
    /\ {q[j].name : j \in 1..Len(q)} = LoggedNames(log)
    /\ \A j \in 1..Len(q) : q[j].description = log[LastIndex(log, q[j].name)].description
    /\ \A i, j \in 1..Len(q) : i < j => Index(log, q[i].name) < Index(log, q[j].name)

\* C9 as amended: generate_instructions on an empty registry returns the empty
\* string; otherwise the document has the header and, for each registered name,
\* one section with the name and its current description, and the sections are
\* in the order in which the names were first registered (registering a name
\* again keeps its place).
C9_DocByFirstRegistration ==
    doc.called =>
        /\ doc.log = <<>> => doc.lines = <<>>
        /\ doc.log # <<>> =>
                /\ SubSeq(doc.lines, 1, Len(Header)) = Header
                /\ ListsOnceBy(SectionsOf(doc.lines), doc.log, FirstIndex)

\* a document generated after a name was registered again, after another name
C9_Witness ==
    /\ doc.called
    /\ \E k1, k2, k3 \in 1..Len(doc.log) :
            /\ k1 < k2 /\ k2 < k3
            /\ doc.log[k1].name = doc.log[k3].name
            /\ doc.log[k1].name # doc.log[k2].name
            /\ doc.log[k1].description # doc.log[k3].description

\* C9 as stated: ... and the sections are in registration order, the order of
\* the registrations that the entries hold (the most recent one of each name).
C9_DocByRegistrationOrder ==
    doc.called =>
        /\ doc.log = <<>> => doc.lines = <<>>
        /\ doc.log # <<>> =>
                /\ SubSeq(doc.lines, 1, Len(Header)) = Header
                /\ ListsOnceBy(SectionsOf(doc.lines), doc.log, LastIndex)

\* the names of a method's receiver parameter
ReceiverNames == {"self", "cls"}
Inferred == schema # NoSchema
PropertyNames == {schema.properties[i].name : i \in 1..Len(schema.properties)}
RequiredNames == {schema.required[i] : i \in 1..Len(schema.required)}
HasDefaultEntry(e) == "default" \in DOMAIN e.info
\* every property is required or carries a default entry, never both, never
\* neither, and a default (None too) is recorded as it is
PropertiesWellFormed ==
    /\ RequiredNames \subseteq PropertyNames
    /\ \A i \in 1..Len(schema.properties) :
            LET e == schema.properties[i]
            IN (e.name \in RequiredNames) <=> ~HasDefaultEntry(e)
    /\ \A i \in 1..Len(sig) :
            (sig[i].name \notin ReceiverNames /\ sig[i].default # EmptyDefault) =>
                \E j \in 1..Len(schema.properties) :
                    /\ schema.properties[j].name = sig[i].name
                    /\ HasDefaultEntry(schema.properties[j])
                    /\ schema.properties[j].info.default = sig[i].default

PrimitiveKind(c) ==
    CASE c = "str" -> "string" [] c = "int" -> "integer" [] c = "float" -> "number"
      [] c = "bool" -> "boolean" [] c = "list" -> "array" [] c = "dict" -> "object"
      [] OTHER -> "string"
\* "optional of T" in either spelling: a union of two members, one of them None
IsOptionalOf(ann) ==
    /\ \/ ann.form = "uniontype"
       \/ ann.form = "alias" /\ ann.origin = "Union"
    /\ Len(ann.args) = 2
    /\ ann.args[2] = Class("NoneType")
    /\ ann.args[1] # Class("NoneType")
\* the annotation forms the mapping rule speaks of
Covered(ann) ==
    \/ ann.form \in {"empty", "class"}
    \/ IsOptionalOf(ann)
    \/ ann.form = "alias" /\ ann.args = <<>>
ExpectedKind(ann) ==
    IF ann.form = "class" THEN PrimitiveKind(ann.name)
    ELSE IF IsOptionalOf(ann) THEN PrimitiveKind(ann.args[1].name)
    ELSE "string"

\* C11: the schema shows str as string, int as integer, float as number, bool
\* as boolean, list as array, dict as object; Optional[T] and T | None are
\* mapped as T; no annotation, an unrecognised class and a wrapper without an
\* inner type are mapped as string.
C11_TypeMapping ==
    (Inferred /\ Len(sig) = 1 /\ Covered(sig[1].ann))
        => schema.properties[1].info.type = ExpectedKind(sig[1].ann)

(***************************************************************************)
(* Claims about execution namespaces.                                      *)
(***************************************************************************)
\* the name -> callable bindings that the first n register calls leave standing
ExpectedBindings(log, n) ==
    {[name |-> log[i].name, func |-> log[i].func] :
        i \in {k \in 1..n : \A j \in (k + 1)..n : log[j].name # log[k].name}}
ItemSet(items) == {items[i] : i \in 1..Len(items)}

\* C12: a snapshot the caller has not changed holds exactly the callables
\* registered when it was taken, one per name, whatever is registered
\* afterwards; and the registry holds exactly what the register calls put
\* there, whatever the caller adds to, replaces in or deletes from a snapshot.
C12_SnapshotIndependent ==
    /\ (ns.taken /\ ~ns.changed) =>
            /\ ItemSet(SnapshotItems) = ExpectedBindings(regLog, ns.at)
            /\ Cardinality(ItemSet(SnapshotItems)) = Len(SnapshotItems)
    /\ ItemSet(NamespaceItems(tools)) = ExpectedBindings(regLog, Len(regLog))

\* a snapshot taken after a registration, changed by the caller, with another
\* registration made after it was taken
C12_Witness ==
    /\ ns.taken
    /\ ns.changed
    /\ ns.at >= 1
    /\ ns.at < Len(regLog)
    /\ ItemSet(SnapshotItems) # ExpectedBindings(regLog, ns.at)

\* C13: when a run starts, every name it can see is a tool registered by then,
\* bound to the registered callable; a name bound by an earlier run is not
\* visible (it raises NameError, or shows the registered tool again).
C13_FreshNamespace ==
    (run.active /\ run.stmts = 0) =>
        \A n \in ScriptNames :
            LET std == {b \in ExpectedBindings(regLog, run.at) : b.name = n}
            IN IF std = {} THEN NameLookup(n) = "NameError"
               ELSE \E b \in std : NameLookup(n) = b.func

\* C14: no callable in a namespace handed out by get_namespace is asynchronous.
C14_NamespaceSynchronous ==
    (ns.taken /\ ~ns.changed) =>
        \A i \in 1..Len(SnapshotItems) : ~is_async_callable(SnapshotItems[i].func)

(***************************************************************************)
(* Claims about the async/sync bridge.                                     *)
(***************************************************************************)
BridgeEnded == bret.kind # "none"
\* what awaiting the async function with the same arguments gives
AwaitedValue(beh, args) == IF beh.val = "args" THEN args ELSE beh.val

\* C15: when the wrapped async function returns a value, the wrapper returns
\* that value, called with no loop running or from inside a running loop, and
\* raises nothing (no nested-event-loop error in particular).
C15_WrapperReturnsValue ==
    (BridgeEnded /\ bret.beh.kind = "return") =>
        /\ bret.kind = "return"
        /\ bret.out.val = AwaitedValue(bret.beh, bret.args)

\* a call from inside a running loop returned the value that depends on the
\* argument, after the coroutine awaited
C15_Witness ==
    /\ BridgeEnded
    /\ bret.in_loop
    /\ bret.beh.kind = "return" /\ bret.beh.val = "args" /\ bret.beh.awaits >= 1
    /\ bret.kind = "return" /\ bret.out.val = bret.args

\* C16: when the wrapped async function raises, the caller of the wrapper
\* gets that very exception, whatever its type and in both calling contexts.
C16_ExceptionUnchanged ==
    (BridgeEnded /\ bret.beh.kind = "raise") =>
        /\ bret.kind = "raise"
        /\ bret.out.exc = [type |-> bret.beh.exc, from |-> "async_func"]

\* the worker thread is alive only while the calling thread waits in the
\* wrapper
CallerParked ==
    worker \in {"started", "running", "finishing"} => bridge.pc \in {"result", "exit_with"}

\* C17: a call of the wrapper whose coroutine completes on an event loop of
\* its own ends (returns or raises) in both calling contexts, and the calling
\* thread does not leave the wrapper before the worker thread has finished.
C17_NoDeadlock ==
    /\ []CallerParked
    /\ (bridge.pc # "idle" /\ bridge.beh.kind # "never") ~> (bridge.pc = "idle")

\* a call made inside a running loop has ended through the worker thread, which
\* has exited
C17_Witness ==
    /\ BridgeEnded
    /\ bret.in_loop /\ bret.via = "thread"
    /\ worker = "exited"
    /\ bridge.pc = "idle"

(***************************************************************************)
(* Claims about toolkit loading.                                           *)
(***************************************************************************)
\* C18: load_agno_toolkit raises nothing, whatever the name and the keyword
\* arguments; when the toolkit cannot be built (unknown name, missing
\* dependency, failing constructor) it gives None, no tool of the toolkit is
\* registered and the registry keeps the entries it had.
C18_LoadNeverRaises ==
    loaded.called =>
        /\ loaded.got.kind # "raised"
        /\ (loaded.name \notin AVAILABLE_TOOLKITS \/ loaded.env # "ok") =>
                /\ loaded.got.kind = "none"
                /\ loaded.registered = <<>>
                /\ \A i \in 1..Len(loaded.before) :
                        \E j \in 1..Len(tools) : tools[j].name = loaded.before[i].name

(***************************************************************************)
(* Claims about the workspace file gateway and save_and_run_python_file.   *)
(***************************************************************************)
\* p lies in the workspace: the workspace root is a prefix of p
Inside(p) == Len(p) >= 1 /\ p[1] = "workspace"

\* where the argument of the last operation leads, ".." and links resolved
Canonical(arg) == Canon(<<>>, Join(WORKSPACE_DIR, arg))

\* nothing outside the workspace has been created or changed
OutsideUntouched ==
    /\ \A p \in DOMAIN files :
          ~Inside(p) => p \in DOMAIN InitFiles /\ files[p] = InitFiles[p]
    /\ \A p \in dirs : ~Inside(p) => p \in InitDirs

\* C5: a read or write whose path, with ".." and links canonicalised, is not
\* below the workspace root returns the outside-the-workspace diagnostic,
\* raises nothing and reads, creates and writes nothing; and no file or
\* directory outside the workspace is ever created or changed by the gateway.
C5_OutsideRejected ==
    /\ ret.op \in {"read", "write"} /\ ~Inside(Canonical(ret.arg))
         => ret.kind = "outside" /\ ~ret.raised /\ ret.touched = {}
    /\ OutsideUntouched

\* a write through ".." was rejected after a write inside the workspace was made
C5_Witness ==
    /\ ret.op = "write"
    /\ ret.arg.segs = <<"..", "d">>
    /\ ~ret.arg.abs
    /\ ret.kind = "outside"
    /\ \E p \in DOMAIN files : Inside(p)

\* where a listed entry is: its directory resolved, its own name kept
EntryLocation(p) ==
    IF Last(p) = ".." THEN Canon(<<>>, p)
    ELSE Append(Canon(<<>>, Parent(p)), Last(p))

\* C6: every path that list_workspace_files returns names an entry located
\* inside the workspace root, whatever the pattern.
C6_ListingInsideWorkspace ==
    ret.op = "list" /\ ret.kind = "listing"
        => \A i \in 1..Len(ret.entries) :
              Inside(EntryLocation(WORKSPACE_DIR \o ret.entries[i]))

\* C7: the file that save_and_run_python_file writes and runs lies inside the
\* workspace directory, whatever the file name.
C7_SavedInsideWorkspace ==
    ret.op = "save_run" => \A p \in ret.touched : Inside(p)

\* C19: uv_add and save_and_run_python_file return a string and raise no
\* exception, whatever the input and whatever fails (executable not found,
\* file not writable, non-zero exit code).
C19_NeverRaises ==
    ret.op \in {"uv_add", "save_run"} => ~ret.raised

\* the directories above q
Above(q) == {SubSeq(q, 1, n) : n \in 0..(Len(q) - 1)}
\* the path of the last write names a directory or passes through a regular file
Blocked(q) == q \in dirs \/ \E a \in Above(q) : a \in DOMAIN files

\* the last write succeeded, its directories exist, the file holds the content
\* written and a read of the same path returns it
WrittenAndReadBack ==
    /\ ret.kind = "written"
    /\ Above(Canonical(ret.arg)) \subseteq dirs
    /\ Canonical(ret.arg) \in DOMAIN files
    /\ files[Canonical(ret.arg)] = ret.data
    /\ read_workspace_file(ret.arg).kind = "content"
    /\ read_workspace_file(ret.arg).data = ret.data

\* a read that returns content returns what the file holds
ReadReturnsStored ==
    (ret.op = "read" /\ ret.kind = "content") =>
        /\ Canonical(ret.arg) \in DOMAIN files
        /\ ret.data = files[Canonical(ret.arg)]

StoredIds == {agentsFile[k].id : k \in 1..Len(agentsFile)}
ListedIds == {e.id : e \in {list_all_agents(agentsFile)[i] :
                                i \in 1..Len(list_all_agents(agentsFile))}}

\* C21: whatever creates, updates and deletes came before, the body of a
\* /config/all-agents response has an entry flagged builtin for "general" and
\* for "coding", an entry with builtin false for every stored custom agent,
\* no other entries, and no id twice.
C21_ListingWellFormed ==
    resp.op = "list" =>
        LET b == resp.body
        IN /\ resp.status = 200
           /\ \A id \in BuiltinIds : \E i \in 1..Len(b) : b[i].id = id /\ b[i].builtin
           /\ \A id \in StoredIds : \E i \in 1..Len(b) : b[i].id = id /\ ~b[i].builtin
           /\ \A i \in 1..Len(b) : ~b[i].builtin => b[i].id \in StoredIds
           /\ \A i, j \in 1..Len(b) : b[i].id = b[j].id => i = j

\* a listing made while two custom agents are stored, one of them renamed to
\* the name its slug came from in another case
C21_Witness ==
    /\ resp.op = "list"
    /\ Len(resp.body) = 4
    /\ \E k \in 1..Len(agentsFile) :
          /\ agentsFile[k].id = generate_id(NameGeneral, Uuid("0"))
          /\ agentsFile[k].name = NameGeneralLower

\* C22: once create has returned an id, the id is in every listing and the run
\* endpoint builds and runs its agent for as long as the entry is stored, and
\* right after a successful delete of an id the listing does not have it.
C22_VisibleUntilDeleted ==
    /\ resp.op = "create" /\ resp.status = 201 => resp.agent_id \in ListedIds
    /\ StoredIds \subseteq ListedIds
    /\ resp.op = "run" /\ resp.agent_id \in StoredIds => resp.agent.kind = "agent"
    /\ resp.op = "delete" /\ resp.status = 204 => resp.agent_id \notin ListedIds

NotFoundDetail(d) ==
    \/ d = <<"Not Found">>
    \/ Len(d) = 3 /\ d[3] = "' not found"

\* C23: a run request for an id that is in neither the built-in nor the custom
\* configurations is answered 404 with a "not found" detail; no agent is
\* built or run and the stored configuration is left as it was.
C23_UnknownAgent404 ==
    [][resp'.op = "run" /\ resp'.agent_id \notin ConfigIds(get_all_agent_configs(agentsFile))
          => /\ resp'.status = 404
             /\ NotFoundDetail(resp'.detail)
             /\ resp'.agent = NoAgent
             /\ agentsFile' = agentsFile]_vars

\* the run of an id nothing has, asked for while a custom agent is stored
C23_Witness ==
    /\ resp.op = "run"
    /\ resp.agent_id = NonexistentAgent
    /\ resp.status = 404
    /\ agentsFile # <<>>

\* C29: no two stored custom agents have names that are equal ignoring case.
C29_NamesUniqueIgnoringCase ==
    \A i, j \in 1..Len(agentsFile) :
        i # j /\ agentsFile[i].name # NoneValue /\ agentsFile[j].name # NoneValue
            => Lower(agentsFile[i].name) # Lower(agentsFile[j].name)

(***************************************************************************)
(* Claims about the dynamic agent registry.                                *)
(***************************************************************************)
\* C30: registry.get_agent returns an agent built from the row the table holds
\* for the id when it is called, and None when the table holds no such row.
C30_NeverStale ==
    got.called =>
        got.agent = IF got.row.present THEN load_from_model(got.row) ELSE NoAgent



(***************************************************************************)
(* Claims about the parameter lists of the generated documentation.        *)
(***************************************************************************)
\* the parameter lines of a document, in order: name, marker and, for a
\* default marker, the value shown
ParamMarks(lines) ==
    LET ps == SelectSeq(lines, LAMBDA l : l.k = "param")
    IN [i \in 1..Len(ps) |->
            IF ps[i].mark = "default" THEN <<ps[i].name, ps[i].mark, ps[i].value>>
            ELSE <<ps[i].name, ps[i].mark>>]

InRequired(e, required) == \E i \in 1..Len(required) : required[i] = e.name

\* the markers the schemas of d call for, tool by tool and property by property
MarksOf(d, Mark(_, _)) ==
    Flatten([t \in 1..Len(d) |->
                [i \in 1..Len(d[t].parameters.properties) |->
                    Mark(d[t].parameters.properties[i], d[t].parameters.required)]])

MarkByRecordedDefault(e, required) ==
    IF InRequired(e, required) THEN <<e.name, "required">>
    ELSE IF "default" \in DOMAIN e.info THEN <<e.name, "default", e.info.default>>
    ELSE <<e.name, "optional">>

MarkByDefaultNotNone(e, required) ==
    IF InRequired(e, required) THEN <<e.name, "required">>
    ELSE IF "default" \in DOMAIN e.info /\ e.info.default # "None"
    THEN <<e.name, "default", e.info.default>>
    ELSE <<e.name, "optional">>

JustGenerated == doc.called /\ doc.log = regLog

\* C24 as amended: the document has one parameter line for every property of
\* every tool, in order, marked required when the name is in the required
\* list, otherwise default=<value> when the property records a default that
\* is not None, otherwise optional.
C24_MarkersDefaultNotNone ==
    JustGenerated => ParamMarks(doc.lines) = MarksOf(tools, MarkByDefaultNotNone)

\* a document with all three markers, the optional one for a recorded default
\* of None
C24_Witness ==
    /\ JustGenerated
    /\ {m[2] : m \in {ParamMarks(doc.lines)[i] : i \in 1..Len(ParamMarks(doc.lines))}}
          = {"required", "default", "optional"}
    /\ \E t \in 1..Len(tools) : \E i \in 1..Len(tools[t].parameters.properties) :
          LET e == tools[t].parameters.properties[i]
          IN "default" \in DOMAIN e.info /\ e.info.default = "None"

\* C24 as stated: ... otherwise default=<value> when the property records a
\* default value, otherwise optional.
C24_MarkersRecordedDefault ==
    JustGenerated => ParamMarks(doc.lines) = MarksOf(tools, MarkByRecordedDefault)

(***************************************************************************)
(* Claims about the order and the coverage of the inferred properties.     *)
(***************************************************************************)
\* the formal parameters of the callable without an implicit receiver: a first
\* parameter named self or cls
FormalsAfterReceiver ==
    IF sig # <<>> /\ sig[1].name \in ReceiverNames THEN Tail(sig) ELSE sig

\* C25: the properties of an inferred schema are the formal parameters of the
\* callable in declaration order, less an implicit leading receiver; every
\* other parameter, whatever its name and position, has an entry.
C25_OnlyLeadingReceiverOmitted ==
    Inferred =>
        [i \in 1..Len(schema.properties) |-> schema.properties[i].name]
            = [i \in 1..Len(FormalsAfterReceiver) |-> FormalsAfterReceiver[i].name]

(***************************************************************************)
(* Claims about parameterised container annotations.                       *)
(***************************************************************************)
Containers == {"list", "dict"}

\* C26: a parameter annotated list[T] is typed array and one annotated
\* dict[K, V] is typed object, for every T, K and V.
C26_ContainersCoarse ==
    Inferred =>
        \A i \in 1..Len(sig) :
            sig[i].ann.form = "alias" /\ sig[i].ann.origin \in Containers =>
                \E j \in 1..Len(schema.properties) :
                    /\ schema.properties[j].name = sig[i].name
                    /\ schema.properties[j].info.type = PrimitiveKind(sig[i].ann.origin)

(***************************************************************************)
(* Claims about the registration of toolkit functions.                     *)
(***************************************************************************)
Registered == loaded.called /\ loaded.registered # <<>>

\* the description the claim gives an item: the explicit description, else the
\* callable's documentation, else the synthesized one
ClaimedDescription(f, toolkit_name) ==
    IF f.wrapped /\ f.description \notin Falsy THEN f.description
    ELSE IF f.doc \notin Falsy THEN f.doc
    ELSE f.name \o " from " \o toolkit_name

\* C27: after register_toolkit, every function of the toolkit, wrapped or not,
\* is registered under prefix + name with its resolved callable and with the
\* explicit description, else the callable's documentation, else
\* "<name> from <toolkit>"; the list returned holds those names in order.
C27_ToolkitDescriptions ==
    Registered =>
        LET fs == loaded.got.functions
        IN /\ loaded.registered = [i \in 1..Len(fs) |-> Prefix(loaded.name) \o fs[i].name]
           /\ \A i \in 1..Len(fs) :
                \E j \in 1..Len(tools) :
                    /\ tools[j].name = loaded.registered[i]
                    /\ tools[j].func = fs[i].func
                    /\ tools[j].description = ClaimedDescription(fs[i], loaded.got.name)

(***************************************************************************)
(* Claims about overlapping executions.                                    *)
(***************************************************************************)
AllReturned == nextId > 1 /\ \A t \in Threads : ~Active(t)

\* C28: once every run_python_code call, overlapping or not, has returned,
\* sys.stdout and sys.stderr are the streams that were attached before the
\* first call: no call's buffer is left installed.
C28_OriginalStreamsAfterOverlap ==
    AllReturned => sys_stdout = OrigStream /\ sys_stderr = OrigStream

====
